---- MODULE Spec2Model ----
(***************************************************************************)
(* Neufin market-data aggregation and derived scoring.                     *)
(*                                                                         *)
(*   RealTimeMarketDataService   src/server/services/stockApi.ts           *)
(*   SentimentAnalysisService    src/unnamed/part_007                      *)
(*   AlphaSignatureService       src/unnamed/part_005                      *)
(*   DatabaseStorage             src/unnamed/part_002                      *)
(*                                                                         *)
(* Number representation.  JavaScript numbers are modelled as integers in  *)
(* fixed point: prices in units of 1/PriceScale, scores in units of        *)
(* 1/ScoreScale, percentages in hundredths of a percent, Math.random() in  *)
(* hundredths.  NaN and undefined are two reserved integers outside every  *)
(* numeric range of the model.  Time is in milliseconds and advances in    *)
(* steps of Tick.  Symbols are sequences of one-character strings.         *)
(* Stored prices are decimal(10,2), integers in cents; a return of the      *)
(* price history is in units of 1/RetScale.                                *)
(***************************************************************************)
EXTENDS Integers, Sequences, FiniteSets, Bags, TLC

VARIABLES
    \* RealTimeMarketDataService
    now,              \* Date.now(), ms
    nextCron,         \* time of the next cron firing
    alphaVantageKey,  \* whether ALPHA_VANTAGE_API_KEY is configured
    priceCache,       \* raw symbol -> NoEntry or [data, timestamp]
    calls,            \* getQuote calls of request handlers that are under way
    lastReturn,       \* the latest getQuote call a request handler got back
    refresh,          \* getQuote calls made by updateCachedPrices, per symbol
    \* SentimentAnalysisService
    openaiKey,        \* whether OPENAI_API_KEY / OPENAI_KEY is configured
    sentCall,         \* the analyzeSentiment call
    \* DatabaseStorage and AlphaSignatureService
    sentimentData,    \* sentiment rows [score, timestamp] of the symbol
    stockPrices,      \* prices of the symbol's rows, most recent first, in cents
    alphaSignatures,  \* alpha signature rows, in insertion order
    alphaCall,        \* the calculateAlphaSignature call
    \* pure scoring functions applied to drawn inputs
    scoreIn, scoreOut,
    \* DatabaseStorage queried on its own
    dbNow,            \* now() of the database, the defaultNow() of a new row
    lastQuery,        \* the latest "latest row" query and its answer
    \* BehavioralBiasAnalyzer
    holdings,         \* the user's portfolio_holdings rows
    analyzerCopy,     \* which of the two definitions of the class is built
    biasCall,         \* the analyzeBehavioralBiases call
    \* detectLossAversion applied to drawn transactions
    lossIn, lossOut,
    \* GET /api/market/trends
    ALPHA_KEY,        \* whether ALPHA_VANTAGE_KEY is configured
    FINNHUB_KEY,      \* whether FINNHUB_API_KEY is configured
    trendsCall,       \* the request handler
    \* determineAssetType applied to drawn symbols
    typeIn, typeOut,
    \* getMultipleQuotes
    manyCall,         \* the getMultipleQuotes call
    \* detectHerding applied to drawn sentiment histories
    herdIn, herdOut,
    \* marketTrendAnalysis: the analysis cache of one user
    trendNow,         \* Date.now(), ms
    analysisCache,    \* the user's entry: NoAnalysis or [data, timestamp]
    generations,      \* generateMarketTrendAnalysis calls started so far
    pendingAnalyses,  \* getCachedMarketTrendAnalysis calls awaiting their generation
    lastRefresh,      \* the analysis the latest refreshMarketTrendAnalysis returned
    trendReturn       \* what the latest getCachedMarketTrendAnalysis returned

quoteVars == <<now, nextCron, alphaVantageKey, priceCache, calls, lastReturn, refresh>>
sentVars  == <<openaiKey, sentCall>>
alphaVars == <<sentimentData, stockPrices, alphaSignatures, alphaCall>>
scoreVars == <<scoreIn, scoreOut>>
storeVars == <<dbNow, lastQuery>>
biasVars == <<holdings, analyzerCopy, biasCall>>
lossVars == <<lossIn, lossOut>>
trendsVars == <<ALPHA_KEY, FINNHUB_KEY, trendsCall>>
typeVars == <<typeIn, typeOut>>
manyVars == <<manyCall>>
herdVars == <<herdIn, herdOut>>
analysisVars == <<trendNow, analysisCache, generations, pendingAnalyses, lastRefresh, trendReturn>>
vars == <<quoteVars, sentVars, alphaVars, scoreVars, storeVars, biasVars, lossVars, trendsVars, typeVars, manyVars, herdVars,
         analysisVars>>
notQuoteVars == <<sentVars, alphaVars, scoreVars, storeVars, biasVars, lossVars, trendsVars, typeVars, manyVars, herdVars,
                 analysisVars>>
notSentVars  == <<quoteVars, alphaVars, scoreVars, storeVars, biasVars, lossVars, trendsVars, typeVars, manyVars, herdVars,
                 analysisVars>>
notAlphaVars == <<quoteVars, sentVars, scoreVars, storeVars, biasVars, lossVars, trendsVars, typeVars, manyVars, herdVars,
                 analysisVars>>
notScoreVars == <<quoteVars, sentVars, alphaVars, storeVars, biasVars, lossVars, trendsVars, typeVars, manyVars, herdVars,
                 analysisVars>>
notStoreVars == <<quoteVars, sentVars, scoreVars, stockPrices, alphaCall, biasVars, lossVars, trendsVars, typeVars, manyVars, herdVars,
                 analysisVars>>
notBiasVars  == <<quoteVars, sentVars, alphaVars, scoreVars, storeVars, lossVars, trendsVars, typeVars, manyVars, herdVars,
                 analysisVars>>
notLossVars  == <<quoteVars, sentVars, alphaVars, scoreVars, storeVars, biasVars, trendsVars, typeVars, manyVars, herdVars,
                 analysisVars>>
notTrendsVars == <<quoteVars, sentVars, alphaVars, scoreVars, storeVars, biasVars, lossVars, typeVars, manyVars, herdVars,
                 analysisVars>>
notTypeVars  == <<quoteVars, sentVars, alphaVars, scoreVars, storeVars, biasVars, lossVars, trendsVars, manyVars, herdVars,
                 analysisVars>>
notManyVars  == <<quoteVars, sentVars, alphaVars, scoreVars, storeVars, biasVars, lossVars, trendsVars, typeVars, herdVars,
                 analysisVars>>
notHerdVars  == <<quoteVars, sentVars, alphaVars, scoreVars, storeVars, biasVars, lossVars, trendsVars, typeVars, manyVars,
                 analysisVars>>
notAnalysisVars == <<quoteVars, sentVars, alphaVars, scoreVars, storeVars, biasVars, lossVars, trendsVars, typeVars, manyVars,
                 herdVars>>

----------------------------------------------------------------------------
(* Numbers *)

NaN == -1000000001
Undef == -1000000002
PriceScale == 10000
ScoreScale == 1000

IsNum(x) == x # NaN /\ x # Undef

\* JavaScript truthiness of a number-or-undefined value
Truthy(x) == IsNum(x) /\ x # 0

\* a || b
JsOr(a, b) == IF Truthy(a) THEN a ELSE b

\* nearest multiple of u, halves away from zero
RoundTo(x, u) ==
    IF x >= 0 THEN ((x + (u \div 2)) \div u) * u
    ELSE 0 - ((((0 - x) + (u \div 2)) \div u) * u)

Pow10(d) == IF d = 0 THEN 1 ELSE IF d = 1 THEN 10 ELSE IF d = 2 THEN 100
            ELSE IF d = 3 THEN 1000 ELSE 10000

\* Number(x.toFixed(d)) of a price-scaled number; NaN.toFixed gives "NaN"
ToFixed(x, d) ==
    IF x = NaN THEN NaN ELSE RoundTo(x, PriceScale \div Pow10(d))

Min(a, b) == IF a <= b THEN a ELSE b
Max(a, b) == IF a >= b THEN a ELSE b

\* Math.min / Math.max: NaN if either argument is NaN
MathMin(a, b) == IF a = NaN \/ b = NaN THEN NaN ELSE Min(a, b)
MathMax(a, b) == IF a = NaN \/ b = NaN THEN NaN ELSE Max(a, b)

\* the values Math.random() takes in the model, in hundredths
RandSet == {0, 99}
\* the draw that makes the mock volume
VolumeRandSet == {50}

----------------------------------------------------------------------------
(* Strings *)

Includes(s, sub) ==
    \E i \in 1..(Len(s) - Len(sub) + 1) : SubSeq(s, i, i + Len(sub) - 1) = sub

UpperChar(c) ==
    CASE c = "a" -> "A" [] c = "b" -> "B" [] c = "d" -> "D" [] c = "e" -> "E"
      [] c = "l" -> "L" [] c = "p" -> "P" [] c = "r" -> "R" [] c = "s" -> "S"
      [] c = "u" -> "U" [] c = "y" -> "Y" [] c = "z" -> "Z"
      [] OTHER -> c

ToUpperCase(s) == [i \in 1..Len(s) |-> UpperChar(s[i])]

----------------------------------------------------------------------------
(* RealTimeMarketDataService: constants and inputs *)

cacheTimeout == 60000
cronPeriod == 120000
\* granularity of the clock: three steps per cache lifetime
Tick == cacheTimeout \div 3

MaxTicks == 4
MaxPhase == 3
MaxCalls == 2

AAPL == <<"A","A","P","L">>
eurusd == <<"e","u","r","u","s","d">>
SPY == <<"S","P","Y">>
Symbols == {AAPL, eurusd, SPY}

AssetTypes == {"stock", "etf", "crypto", "commodity", "forex"}

NullQuote == [null |-> TRUE]
NoEntry == [absent |-> TRUE]

\* what the Yahoo chart endpoint can answer: a failed request (network error,
\* timeout, HTTP error), a body without meta or quote, or chart data
YahooResponses ==
    {[kind |-> "error"], [kind |-> "unusable"],
     \* no last close and no previous close: the market price and the chart's
     \* previous close stand in
     [kind |-> "data", close |-> 0, previousClose |-> Undef,
      chartPreviousClose |-> 120000, regularMarketPrice |-> 125000, volume |-> 5000],
     \* a price below one cent, no previous close, no volume
     [kind |-> "data", close |-> 40, previousClose |-> Undef,
      chartPreviousClose |-> Undef, regularMarketPrice |-> Undef, volume |-> Undef],
     \* no price at all
     [kind |-> "data", close |-> Undef, previousClose |-> Undef,
      chartPreviousClose |-> Undef, regularMarketPrice |-> Undef, volume |-> Undef]}

\* what Alpha Vantage can answer: a failed request, a body with neither key
\* (rate-limit note, error message), an exchange rate, or a global quote
AlphaResponses ==
    {[kind |-> "error"], [kind |-> "none"]} \cup
    [kind : {"fx"}, rate : {10845}, lastRefreshed : {0}] \cup
    [kind : {"global"}, price : {125000}, change : {5000},
     changePercent : {Undef, 417}, volume : {5000}, lastRefreshed : {0}]

----------------------------------------------------------------------------
(* RealTimeMarketDataService: pure functions *)

determineAssetType(symbol) ==
    LET upper == ToUpperCase(symbol) IN
    IF Includes(upper, <<"U","S","D">>)
       /\ (Includes(upper, <<"B","T","C">>) \/ Includes(upper, <<"E","T","H">>)
           \/ Includes(upper, <<"A","D","A">>) \/ Includes(upper, <<"S","O","L">>))
    THEN "crypto"
    ELSE IF Includes(upper, <<"=","X">>)
            \/ (Len(upper) = 6 /\ Includes(upper, <<"U","S","D">>))
            \/ Includes(upper, <<"E","U","R">>) \/ Includes(upper, <<"G","B","P">>)
            \/ Includes(upper, <<"J","P","Y">>)
    THEN "forex"
    ELSE IF upper \in {<<"G","L","D">>, <<"S","L","V">>, <<"O","I","L">>,
                       <<"U","S","O">>, <<"U","N","G">>, <<"G","O","L","D">>}
            \/ Includes(upper, <<"C","O","M","M","O","D","I","T","Y">>)
    THEN "commodity"
    ELSE IF upper \in {<<"S","P","Y">>, <<"Q","Q","Q">>, <<"I","W","M">>,
                       <<"V","T","I">>, <<"V","O","O">>, <<"V","E","A">>,
                       <<"V","W","O">>, <<"I","E","M","G">>}
            \/ Includes(upper, <<"E","T","F">>)
    THEN "etf"
    ELSE "stock"

formatSymbolForYahoo(symbol, assetType) ==
    LET upper == ToUpperCase(symbol) IN
    IF assetType = "crypto" /\ ~Includes(upper, <<"-","U","S","D">>)
    THEN upper \o <<"-","U","S","D">>
    ELSE IF assetType = "forex" /\ ~Includes(upper, <<"=","X">>) /\ Len(upper) = 6
    THEN upper \o <<"=","X">>
    ELSE upper

\* the parsed quote, or NullQuote when the request failed, the body is
\* unusable, or building the quote threw (currentPrice undefined)
fetchFromYahoo(symbol, assetType, resp, t) ==
    IF resp.kind # "data" THEN NullQuote
    ELSE
    LET currentPrice == JsOr(JsOr(resp.close, resp.previousClose), resp.regularMarketPrice)
        previousClose == JsOr(resp.previousClose, resp.chartPreviousClose)
        change == IF IsNum(previousClose) THEN currentPrice - previousClose ELSE NaN
        changePercent == IF change = NaN THEN NaN
                         ELSE RoundTo(change * 10000, previousClose) \div previousClose
    IN  IF ~IsNum(currentPrice) THEN NullQuote
        ELSE [symbol |-> ToUpperCase(symbol),
              price |-> ToFixed(currentPrice, IF assetType = "forex" THEN 4 ELSE 2),
              change |-> ToFixed(change, 2),
              changePercent |-> changePercent,
              volume |-> JsOr(resp.volume, 0),
              assetType |-> assetType,
              lastUpdated |-> t,
              tier |-> "yahoo",
              fetchedAt |-> t]

fetchFromAlphaVantage(symbol, assetType, resp, t, key) ==
    IF ~key THEN NullQuote
    ELSE IF resp.kind = "fx" /\ assetType = "forex"
    THEN [symbol |-> ToUpperCase(symbol),
          price |-> ToFixed(resp.rate, 4),
          change |-> 0,
          changePercent |-> 0,
          volume |-> 0,
          assetType |-> "forex",
          lastUpdated |-> resp.lastRefreshed,
          tier |-> "alphavantage",
          fetchedAt |-> t]
    ELSE IF resp.kind = "global"
    THEN IF resp.changePercent = Undef THEN NullQuote
         ELSE [symbol |-> ToUpperCase(symbol),
               price |-> resp.price,
               change |-> resp.change,
               changePercent |-> resp.changePercent,
               volume |-> resp.volume,
               assetType |-> "stock",
               lastUpdated |-> resp.lastRefreshed,
               tier |-> "alphavantage",
               fetchedAt |-> t]
    ELSE NullQuote

getDefaultPriceForAssetType(assetType, r) ==
    CASE assetType = "crypto" -> 1000 * PriceScale + r * 500 * PriceScale
      [] assetType = "forex" -> (PriceScale \div 2) + (r * 15 * PriceScale) \div 1000
      [] assetType = "commodity" -> 50 * PriceScale + r * 2 * PriceScale
      [] assetType = "etf" -> 100 * PriceScale + r * 4 * PriceScale
      [] OTHER -> 50 * PriceScale + r * 5 * PriceScale

prices ==
    {<<<<"A","A","P","L">>, 1802500>>,
     <<<<"T","S","L","A">>, 2523000>>,
     <<<<"N","V","D","A">>, 4872300>>,
     <<<<"M","S","F","T">>, 3789500>>,
     <<<<"G","O","O","G","L">>, 1428900>>,
     <<<<"A","M","Z","N">>, 1514500>>,
     <<<<"M","E","T","A">>, 3246700>>,
     <<<<"A","M","D">>, 1567800>>,
     <<<<"N","F","L","X">>, 4453200>>,
     <<<<"B","A","B","A">>, 894500>>,
     <<<<"T","S","M">>, 1036700>>,
     <<<<"A","S","M","L">>, 7892300>>,
     <<<<"S","P","Y">>, 4512300>>,
     <<<<"Q","Q","Q">>, 3845600>>,
     <<<<"I","W","M">>, 1984500>>,
     <<<<"V","T","I">>, 2346700>>,
     <<<<"V","O","O">>, 4012300>>,
     <<<<"V","E","A">>, 489200>>,
     <<<<"V","W","O">>, 423400>>,
     <<<<"I","E","M","G">>, 521100>>,
     <<<<"B","T","C","-","U","S","D">>, 654205000>>,
     <<<<"E","T","H","-","U","S","D">>, 34567800>>,
     <<<<"A","D","A","-","U","S","D">>, 4500>>,
     <<<<"S","O","L","-","U","S","D">>, 1423400>>,
     <<<<"D","O","T","-","U","S","D">>, 67800>>,
     <<<<"M","A","T","I","C","-","U","S","D">>, 8900>>,
     <<<<"G","L","D">>, 2014500>>,
     <<<<"S","L","V">>, 236700>>,
     <<<<"U","S","O">>, 782300>>,
     <<<<"U","N","G">>, 123400>>,
     <<<<"E","U","R","U","S","D","=","X">>, 10845>>,
     <<<<"G","B","P","U","S","D","=","X">>, 12634>>,
     <<<<"U","S","D","J","P","Y","=","X">>, 1492300>>,
     <<<<"A","U","D","U","S","D","=","X">>, 6789>>,
     <<<<"U","S","D","C","A","D","=","X">>, 13456>>,
     <<<<"U","S","D","C","H","F","=","X">>, 8912>>}

getBasePriceForSymbol(symbol, assetType, r) ==
    LET upper == ToUpperCase(symbol)
        found == {e \in prices : e[1] = upper}
    IN  IF found # {} THEN (CHOOSE e \in found : TRUE)[2]
        ELSE getDefaultPriceForAssetType(assetType, r)

getVolatilityForAssetType(assetType) ==
    CASE assetType = "crypto" -> 8
      [] assetType = "forex" -> 1
      [] assetType = "commodity" -> 4
      [] assetType = "etf" -> 2
      [] OTHER -> 3

\* r1, r2, r3: the three Math.random() draws (default price, change, volume)
getRealisticMockQuote(symbol, assetType, t, r1, r2, r3) ==
    LET basePrice == getBasePriceForSymbol(symbol, assetType, r1)
        volatility == getVolatilityForAssetType(assetType)
        changePercent == (r2 - 50) * volatility * 2
        change == RoundTo(basePrice * changePercent, 10000) \div 10000
    IN  [symbol |-> ToUpperCase(symbol),
         price |-> ToFixed(basePrice + change, IF assetType = "forex" THEN 4 ELSE 2),
         change |-> ToFixed(change, 2),
         changePercent |-> changePercent,
         volume |-> r3 * 100000 + 1000000,
         assetType |-> assetType,
         lastUpdated |-> t,
         tier |-> "mock",
         fetchedAt |-> t]

----------------------------------------------------------------------------
(* RealTimeMarketDataService: getQuote, updateCachedPrices, the clock *)

\* a getQuote call: pc is "new" (not made yet), "yahoo" or "alpha" (awaiting
\* that provider) or "done"; elapsed: a clock step passed while it waited;
\* fromCache: it returned at the cache check
NewCall ==
    [pc |-> "new", symbol |-> <<>>, assetType |-> "", started |-> 0,
     elapsed |-> FALSE, fromCache |-> FALSE, result |-> NullQuote]

IsFresh(cache, symbol, t) ==
    cache[symbol] # NoEntry /\ t - cache[symbol].timestamp < cacheTimeout

CacheSet(cache, symbol, quote, t) ==
    [cache EXCEPT ![symbol] = [data |-> quote, timestamp |-> t]]

MockQuotes(symbol, assetType, t) ==
    {getRealisticMockQuote(symbol, assetType, t, r1, r2, r3) :
        r1 \in RandSet, r2 \in RandSet, r3 \in VolumeRandSet}

Returned(c, quote, hit) ==
    [c EXCEPT !.pc = "done", !.result = quote, !.fromCache = hit]

\* mutant: a miss of the cache asks Alpha Vantage first
getQuoteBegin_secondary(symbol, cache, t) ==
    IF IsFresh(cache, symbol, t)
    THEN Returned([NewCall EXCEPT !.symbol = symbol, !.started = t],
                  cache[symbol].data, TRUE)
    ELSE [NewCall EXCEPT !.pc = "alpha", !.symbol = symbol, !.started = t,
                         !.assetType = determineAssetType(symbol)]

\* getQuote up to its first await: the cache check, else the Yahoo request
getQuoteBegin(symbol, cache, t) ==
    IF IsFresh(cache, symbol, t)
    THEN Returned([NewCall EXCEPT !.symbol = symbol, !.started = t],
                  cache[symbol].data, TRUE)
    ELSE [NewCall EXCEPT !.pc = "yahoo", !.symbol = symbol, !.started = t,
                         !.assetType = determineAssetType(symbol)]

\* mutant: no mock quote, the call returns null when every provider failed
getQuoteMock_null(c, cache, t) ==
    {<<Returned(c, NullQuote, FALSE), cache>>}

\* the last tier of getQuote: the outcomes <<call, cache>> of the mock quote
getQuoteMock(c, cache, t) ==
    {<<Returned(c, q, FALSE), cache>> :
        q \in MockQuotes(c.symbol, c.assetType, t)}

\* getQuote from the Yahoo answer on: the outcomes <<call, cache>>
getQuoteAfterYahoo(c, resp, cache, t, key) ==
    LET assetType == c.assetType
        formattedSymbol == formatSymbolForYahoo(c.symbol, assetType)
        quote == fetchFromYahoo(formattedSymbol, assetType, resp, t)
    IN  IF quote # NullQuote
        THEN {<<Returned(c, quote, FALSE), CacheSet(cache, c.symbol, quote, t)>>}
        ELSE IF key /\ assetType \in {"stock", "forex"}
        THEN {<<[c EXCEPT !.pc = "alpha"], cache>>}
        ELSE getQuoteMock(c, cache, t)

\* getQuote from the Alpha Vantage answer on
getQuoteAfterAlpha(c, resp, cache, t, key) ==
    LET assetType == c.assetType
        alphaQuote == fetchFromAlphaVantage(c.symbol, assetType, resp, t, key)
    IN  IF alphaQuote # NullQuote
        THEN {<<Returned(c, alphaQuote, FALSE), CacheSet(cache, c.symbol, alphaQuote, t)>>}
        ELSE getQuoteMock(c, cache, t)

\* the continuation of updateCachedPrices' callback once its getQuote returned
refreshStore(c, cache, t) ==
    IF c.pc = "done" /\ c.result # NullQuote
    THEN CacheSet(cache, c.symbol, c.result, t)
    ELSE cache

\* the callback is over once it has stored
refreshEnd(c) == IF c.pc = "done" THEN NewCall ELSE c

InFlight(c) == c.pc \in {"yahoo", "alpha"}

\* what a request handler got from its getQuote call
ReturnOf(c) ==
    [symbol |-> c.symbol, started |-> c.started, fromCache |-> c.fromCache,
     result |-> c.result]

NoReturn == [none |-> TRUE]

\* call c goes on as d: a call that is done hands its result to the handler
Continue(c, d) ==
    IF d.pc = "done"
    THEN /\ calls' = calls (-) SetToBag({c})
         /\ lastReturn' = ReturnOf(d)
    ELSE /\ calls' = (calls (-) SetToBag({c})) (+) SetToBag({d})
         /\ UNCHANGED lastReturn

\* the symbols requested so far; the requests of one run ask for one symbol
\* (the cache is keyed by symbol and no step reads another symbol's entry)
RequestedSymbols ==
    {s \in Symbols : priceCache[s] # NoEntry}
    \cup {c.symbol : c \in BagToSet(calls)}
    \cup (IF lastReturn = NoReturn THEN {} ELSE {lastReturn.symbol})

\* a request handler calls getQuote(symbol)
GetQuote(symbol) ==
    /\ BagCardinality(calls) < MaxCalls
    /\ RequestedSymbols \subseteq {symbol}
    /\ LET d == getQuoteBegin(symbol, priceCache, now) IN
          IF d.pc = "done"
          THEN calls' = calls /\ lastReturn' = ReturnOf(d)
          ELSE calls' = calls (+) SetToBag({d}) /\ UNCHANGED lastReturn
    /\ UNCHANGED <<now, nextCron, alphaVantageKey, priceCache, refresh>>
    /\ UNCHANGED notQuoteVars

YahooReturns(c) ==
    /\ c.pc = "yahoo"
    /\ \E out \in UNION {getQuoteAfterYahoo(c, resp, priceCache, now, alphaVantageKey) :
                           resp \in YahooResponses} :
          /\ Continue(c, out[1])
          /\ priceCache' = out[2]
    /\ UNCHANGED <<now, nextCron, alphaVantageKey, refresh>>
    /\ UNCHANGED notQuoteVars

AlphaReturns(c) ==
    /\ c.pc = "alpha"
    /\ \E out \in UNION {getQuoteAfterAlpha(c, resp, priceCache, now, alphaVantageKey) :
                           resp \in AlphaResponses} :
          /\ Continue(c, out[1])
          /\ priceCache' = out[2]
    /\ UNCHANGED <<now, nextCron, alphaVantageKey, refresh>>
    /\ UNCHANGED notQuoteVars

\* the cron callback: one getQuote per cached key, each followed by a store
updateCachedPrices ==
    /\ now = nextCron
    /\ nextCron' = now + cronPeriod
    /\ refresh' = [s \in Symbols |->
                     IF priceCache[s] # NoEntry
                     THEN refreshEnd(getQuoteBegin(s, priceCache, now)) ELSE refresh[s]]
    /\ priceCache' = [s \in Symbols |->
                     IF priceCache[s] # NoEntry
                     THEN refreshStore(getQuoteBegin(s, priceCache, now), priceCache, now)[s]
                     ELSE priceCache[s]]
    /\ UNCHANGED <<now, alphaVantageKey, calls, lastReturn>>
    /\ UNCHANGED notQuoteVars

RefreshYahooReturns(s) ==
    /\ refresh[s].pc = "yahoo"
    /\ \E out \in UNION {getQuoteAfterYahoo(refresh[s], resp, priceCache, now, alphaVantageKey) :
                           resp \in YahooResponses} :
          /\ refresh' = [refresh EXCEPT ![s] = refreshEnd(out[1])]
          /\ priceCache' = refreshStore(out[1], out[2], now)
    /\ UNCHANGED <<now, nextCron, alphaVantageKey, calls, lastReturn>>
    /\ UNCHANGED notQuoteVars

RefreshAlphaReturns(s) ==
    /\ refresh[s].pc = "alpha"
    /\ \E out \in UNION {getQuoteAfterAlpha(refresh[s], resp, priceCache, now, alphaVantageKey) :
                           resp \in AlphaResponses} :
          /\ refresh' = [refresh EXCEPT ![s] = refreshEnd(out[1])]
          /\ priceCache' = refreshStore(out[1], out[2], now)
    /\ UNCHANGED <<now, nextCron, alphaVantageKey, calls, lastReturn>>
    /\ UNCHANGED notQuoteVars

\* time passes; a pending provider request (5 s and 10 s timeouts) outlives
\* at most one clock step, and the cron callback runs at its minute
ClockTick ==
    /\ now < MaxTicks * Tick
    /\ now < nextCron
    /\ \A c \in BagToSet(calls) : ~c.elapsed
    /\ \A s \in Symbols : InFlight(refresh[s]) => ~refresh[s].elapsed
    /\ now' = now + Tick
    /\ calls' = [d \in {[c EXCEPT !.elapsed = TRUE] : c \in BagToSet(calls)} |->
                   calls[[d EXCEPT !.elapsed = FALSE]]]
    /\ refresh' = [s \in Symbols |->
                   IF InFlight(refresh[s]) THEN [refresh[s] EXCEPT !.elapsed = TRUE]
                   ELSE refresh[s]]
    /\ UNCHANGED <<nextCron, alphaVantageKey, priceCache, lastReturn>>
    /\ UNCHANGED notQuoteVars

QuoteInit ==
    /\ now = 0
    /\ nextCron \in {k * Tick : k \in 1..MaxPhase}
    /\ alphaVantageKey \in BOOLEAN
    /\ priceCache = [s \in Symbols |-> NoEntry]
    /\ calls = EmptyBag
    /\ refresh = [s \in Symbols |-> NewCall]
    /\ lastReturn = NoReturn

QuoteNext ==
    \/ \E s \in Symbols : GetQuote(s)
    \/ \E c \in BagToSet(calls) : YahooReturns(c)
    \/ \E c \in BagToSet(calls) : AlphaReturns(c)
    \/ updateCachedPrices
    \/ \E s \in Symbols : RefreshYahooReturns(s)
    \/ \E s \in Symbols : RefreshAlphaReturns(s)
    \/ ClockTick

----------------------------------------------------------------------------
(* SentimentAnalysisService *)

\* the texts analysed, chosen for their counts of list words: none, three
\* positive, two negative, one of each, five positive, five negative, and a
\* list word inside another word
TextEmpty == <<>>
TextBeat == <<"S","t","r","o","n","g"," ","G","r","o","w","t","h",","," ","e","a","r","n","i","n","g","s"," ","b","e","a","t">>
TextLoss == <<"S","h","a","r","e","s"," ","d","r","o","p"," ","o","n"," ","l","o","s","s">>
TextTie == <<"p","r","o","f","i","t"," ","d","e","s","p","i","t","e"," ","d","e","c","l","i","n","e">>
TextRally == <<"g","a","i","n"," ","b","o","o","s","t"," ","s","u","c","c","e","s","s"," ","i","n","c","r","e","a","s","e"," ","p","r","o","f","i","t">>
TextSlump == <<"l","o","s","s"," ","d","e","c","l","i","n","e"," ","f","a","l","l"," ","d","r","o","p"," ","c","o","n","c","e","r","n">>
TextAgainst == <<"v","o","t","e"," ","a","g","a","i","n","s","t"," ","m","e","r","g","e","r">>
\* a list word twice
TextRepeat == <<"g","a","i","n"," ","g","a","i","n"," ","l","o","s","s">>
Texts == {TextEmpty, TextBeat, TextLoss, TextTie, TextRally, TextSlump, TextAgainst, TextRepeat}

SentimentLabels == {"positive", "negative", "neutral"}

\* What the chat completion can come to: the request throws (network, quota,
\* timeout), the content is not JSON, the content is the JSON null, or it is a
\* JSON object.  Of an object the model keeps result.sentiment ("" when it is
\* missing) and Number(result.score), Number(result.confidence): NaN for a
\* missing or non-numeric field.
LlmReplies ==
    {[kind |-> "throws"], [kind |-> "notjson"], [kind |-> "null"]} \cup
    [kind : {"object"},
     sentiment : {"positive", "negative", "neutral", "bullish", ""},
     score : {NaN, 0, -3000, 7500, 10000, 15000},
     confidence : {NaN, 0, -200, 850, 1500}]

LowerChar(c) ==
    CASE c = "S" -> "s" [] c = "G" -> "g" [] OTHER -> c

ToLowerCase(s) == [i \in 1..Len(s) |-> LowerChar(s[i])]

positiveWords ==
    {<<"b","e","a","t">>,
     <<"s","t","r","o","n","g">>,
     <<"g","r","o","w","t","h">>,
     <<"p","r","o","f","i","t">>,
     <<"i","n","c","r","e","a","s","e">>,
     <<"b","o","o","s","t">>,
     <<"s","u","c","c","e","s","s">>,
     <<"g","a","i","n">>}

negativeWords ==
    {<<"l","o","s","s">>,
     <<"d","e","c","l","i","n","e">>,
     <<"f","a","l","l">>,
     <<"d","r","o","p">>,
     <<"c","h","a","l","l","e","n","g","e">>,
     <<"s","t","r","u","g","g","l","e">>,
     <<"w","e","a","k","n","e","s","s">>,
     <<"c","o","n","c","e","r","n">>}

\* r: the Math.random() draw of the confidence
getMockSentiment(text, r) ==
    LET lowerText == ToLowerCase(text)
        positiveMatches == Cardinality({w \in positiveWords : Includes(lowerText, w)})
        negativeMatches == Cardinality({w \in negativeWords : Includes(lowerText, w)})
        confidence == 700 + r * 2
    IN  IF positiveMatches > negativeMatches
        THEN [sentiment |-> "positive",
              score |-> (6 + Min(positiveMatches, 4)) * ScoreScale,
              confidence |-> confidence]
        ELSE IF negativeMatches > positiveMatches
        THEN [sentiment |-> "negative",
              score |-> (4 - Min(negativeMatches, 4)) * ScoreScale,
              confidence |-> confidence]
        ELSE [sentiment |-> "neutral", score |-> 5 * ScoreScale,
              confidence |-> confidence]

\* mutant: the score of the completion is taken as it comes
normalizeScore_unclamped(n) == JsOr(n, 5 * ScoreScale)

\* Math.max(0, Math.min(10, Number(result.score) || 5))
normalizeScore(n) == MathMax(0, MathMin(10 * ScoreScale, JsOr(n, 5 * ScoreScale)))

\* Math.max(0, Math.min(1, Number(result.confidence) || 0.5))
normalizeConfidence(n) == MathMax(0, MathMin(ScoreScale, JsOr(n, ScoreScale \div 2)))

normalizeSentiment(label) ==
    IF label \in {"positive", "negative", "neutral"} THEN label ELSE "neutral"

\* analyzeSentiment from the answer of the chat completion on: the possible
\* results (the fallback draws its confidence)
analyzeAfterLlm(text, reply) ==
    IF reply.kind = "object"
    THEN {[sentiment |-> normalizeSentiment(reply.sentiment),
           score |-> normalizeScore(reply.score),
           confidence |-> normalizeConfidence(reply.confidence)]}
    ELSE {getMockSentiment(text, r) : r \in RandSet}

NoSentiment == [none |-> TRUE]

\* the analyzeSentiment call: pc is "idle", "llm" (awaiting the completion)
\* or "done"; reply is the answer it got, NoReply when it asked for none
NoReply == [kind |-> "none"]
IdleSentCall == [pc |-> "idle", text |-> <<>>, reply |-> NoReply, result |-> NoSentiment]

AnalyzeSentiment(text) ==
    /\ sentCall.pc \in {"idle", "done"}
    /\ IF ~openaiKey
       THEN \E r \in RandSet :
               sentCall' = [pc |-> "done", text |-> text, reply |-> NoReply,
                            result |-> getMockSentiment(text, r)]
       ELSE sentCall' = [pc |-> "llm", text |-> text, reply |-> NoReply,
                         result |-> NoSentiment]
    /\ UNCHANGED openaiKey
    /\ UNCHANGED notSentVars

LlmReturns(reply) ==
    /\ sentCall.pc = "llm"
    /\ \E res \in analyzeAfterLlm(sentCall.text, reply) :
          sentCall' = [sentCall EXCEPT !.pc = "done", !.reply = reply, !.result = res]
    /\ UNCHANGED openaiKey
    /\ UNCHANGED notSentVars

SentInit ==
    /\ openaiKey \in BOOLEAN
    /\ sentCall = IdleSentCall

SentNext ==
    \/ \E text \in Texts : AnalyzeSentiment(text)
    \/ \E reply \in LlmReplies : LlmReturns(reply)

----------------------------------------------------------------------------
(* DatabaseStorage: the rows of one symbol *)

NoRow == [none |-> TRUE]

\* select ... order by timestamp desc limit 1: a row with the greatest
\* timestamp, any of them when several share it
getLatestSentiment(rows) ==
    IF rows = <<>> THEN {NoRow}
    ELSE {rows[i] : i \in {j \in DOMAIN rows :
                              \A k \in DOMAIN rows : rows[k].timestamp <= rows[j].timestamp}}

\* select ... order by timestamp desc limit n
getStockPriceHistory(rows, limit) == SubSeq(rows, 1, Min(Len(rows), limit))

addStockPrice(rows, price) == <<price>> \o rows

\* the score columns of alpha_signatures are real: a stored score keeps 24
\* of the 53 significant bits it was computed with.  In the model a score
\* is computed in thousandths and a real column keeps its hundredths.
RealUnit == 10

toReal(x) == IF x = NaN THEN NaN ELSE RoundTo(x, RealUnit)

\* the row gets the database's now() as its timestamp, after the rows
\* inserted before it
addAlphaSignature(rows, signature, t) ==
    Append(rows, [sentimentScore |-> toReal(signature.sentimentScore),
                  volatilityScore |-> toReal(signature.volatilityScore),
                  momentumScore |-> toReal(signature.momentumScore),
                  alphaScore |-> toReal(signature.alphaScore),
                  signal |-> signature.signal,
                  timestamp |-> t])

addSentimentData(rows, score, t) == Append(rows, [score |-> score, timestamp |-> t])

\* select ... order by timestamp desc limit 1 on alpha_signatures: as
\* getLatestSentiment, any of the rows that share the greatest timestamp
getAlphaSignatureBySymbol(rows) ==
    IF rows = <<>> THEN {NoRow}
    ELSE {rows[i] : i \in {j \in DOMAIN rows :
                              \A k \in DOMAIN rows : rows[k].timestamp <= rows[j].timestamp}}

----------------------------------------------------------------------------
(* AlphaSignatureService *)

historyLimit == 20
RetScale == 10000

\* a / b to the nearest integer, b > 0
Quot(a, b) ==
    IF a >= 0 THEN (a + (b \div 2)) \div b ELSE 0 - (((0 - a) + (b \div 2)) \div b)

RECURSIVE SumSeq(_)
SumSeq(s) == IF s = <<>> THEN 0 ELSE Head(s) + SumSeq(Tail(s))

\* floor of the square root of n, by bisection of lo..hi
RECURSIVE SqrtIn(_, _, _)
SqrtIn(n, lo, hi) ==
    IF lo >= hi THEN lo
    ELSE LET mid == (lo + hi + 1) \div 2
         IN IF mid * mid <= n THEN SqrtIn(n, mid, hi) ELSE SqrtIn(n, lo, mid - 1)

Sqrt(n) == SqrtIn(n, 0, 46000)

\* mutant: the default is returned for fewer than four points
calculateVolatilityScore_four(priceHistory) ==
    IF Len(priceHistory) < 4 THEN 5 * ScoreScale
    ELSE IF \E i \in 1..(Len(priceHistory) - 1) : priceHistory[i] = 0 THEN NaN
    ELSE LET returns == [i \in 1..(Len(priceHistory) - 1) |->
                            Quot((priceHistory[i + 1] - priceHistory[i]) * RetScale,
                                 priceHistory[i])]
             n == Len(returns)
             mean == Quot(SumSeq(returns), n)
             variance == Quot(SumSeq([i \in 1..n |->
                                 (returns[i] - mean) * (returns[i] - mean)]), n)
             standardDeviation == Sqrt(variance)
             volatilityPercent == (standardDeviation * 100 * ScoreScale) \div RetScale
             score == MathMax(0, 10 * ScoreScale - volatilityPercent * 2)
         IN MathMin(10 * ScoreScale, MathMax(0, score))

\* a return whose previous price is 0 is infinite or NaN, and the variance of
\* returns that hold one is NaN; Math.max and Math.min pass NaN on
calculateVolatilityScore(priceHistory) ==
    IF Len(priceHistory) < 5 THEN 5 * ScoreScale
    ELSE IF \E i \in 1..(Len(priceHistory) - 1) : priceHistory[i] = 0 THEN NaN
    ELSE LET returns == [i \in 1..(Len(priceHistory) - 1) |->
                            Quot((priceHistory[i + 1] - priceHistory[i]) * RetScale,
                                 priceHistory[i])]
             n == Len(returns)
             mean == Quot(SumSeq(returns), n)
             variance == Quot(SumSeq([i \in 1..n |->
                                 (returns[i] - mean) * (returns[i] - mean)]), n)
             standardDeviation == Sqrt(variance)
             volatilityPercent == (standardDeviation * 100 * ScoreScale) \div RetScale
             score == MathMax(0, 10 * ScoreScale - volatilityPercent * 2)
         IN MathMin(10 * ScoreScale, MathMax(0, score))

\* the two averages are sums over five prices each, so their ratio is the
\* ratio of the sums; an older sum of 0 gives +Infinity (clamped to 10) or,
\* when the recent sum is 0 as well, NaN
calculateMomentumScore(priceHistory) ==
    IF Len(priceHistory) < 10 THEN 5 * ScoreScale
    ELSE LET recent == SumSeq(SubSeq(priceHistory, 1, 5))
             older == SumSeq(SubSeq(priceHistory, 6, 10))
         IN IF older = 0
            THEN IF recent = 0 THEN NaN ELSE 10 * ScoreScale
            ELSE LET momentumPercent == Quot((recent - older) * 100 * ScoreScale, older)
                     score == 5 * ScoreScale + momentumPercent * 2
                 IN MathMin(10 * ScoreScale, MathMax(0, score))

\* Math.round(weightedScore * 10) / 10: weightedScore10 is the weighted sum
\* times 100 in score units, Math.round rounds halves up
calculateAlphaScore(sentiment, volatility, momentum) ==
    IF NaN \in {sentiment, volatility, momentum} THEN NaN
    ELSE LET weightedScore10 == 40 * sentiment + 30 * volatility + 30 * momentum
         IN ((weightedScore10 + 5000) \div 10000) * (ScoreScale \div 10)

\* mutant: what is neither buy nor hold and is above 6 is a strong sell
generateSignal_gap(alphaScore) ==
    IF alphaScore = NaN THEN "strong_sell"
    ELSE IF alphaScore * 10 >= 85 * ScoreScale THEN "strong_buy"
    ELSE IF alphaScore >= 7 * ScoreScale THEN "buy"
    ELSE IF alphaScore >= 4 * ScoreScale /\ alphaScore <= 6 * ScoreScale THEN "hold"
    ELSE IF alphaScore * 10 >= 25 * ScoreScale /\ alphaScore < 4 * ScoreScale THEN "sell"
    ELSE "strong_sell"

\* every comparison with NaN is false
generateSignal(alphaScore) ==
    IF alphaScore = NaN THEN "strong_sell"
    ELSE IF alphaScore * 10 >= 85 * ScoreScale THEN "strong_buy"
    ELSE IF alphaScore >= 7 * ScoreScale THEN "buy"
    ELSE IF alphaScore >= 4 * ScoreScale /\ alphaScore <= 6 * ScoreScale THEN "hold"
    ELSE IF alphaScore * 10 >= 25 * ScoreScale THEN "sell"
    ELSE "strong_sell"

\* latestSentiment?.score || 5
sentimentScoreOf(latestSentiment) ==
    IF latestSentiment = NoRow THEN 5 * ScoreScale
    ELSE JsOr(latestSentiment.score, 5 * ScoreScale)

computeMetrics(sentimentScore, priceHistory) ==
    LET volatilityScore == calculateVolatilityScore(priceHistory)
        momentumScore == calculateMomentumScore(priceHistory)
        alphaScore == calculateAlphaScore(sentimentScore, volatilityScore, momentumScore)
    IN [sentimentScore |-> sentimentScore,
        volatilityScore |-> volatilityScore,
        momentumScore |-> momentumScore,
        alphaScore |-> alphaScore,
        signal |-> generateSignal(alphaScore)]

neutralMetrics ==
    [sentimentScore |-> 5 * ScoreScale, volatilityScore |-> 5 * ScoreScale,
     momentumScore |-> 5 * ScoreScale, alphaScore |-> 5 * ScoreScale,
     signal |-> "hold"]

NoMetrics == [none |-> TRUE]
Thrown == [thrown |-> TRUE]

\* mutant: the error leaves the call
catchError_rethrow(c) ==
    [c EXCEPT !.error = c.pc, !.pc = "done", !.result = Thrown]

\* the catch block: the call returns the neutral metrics; error records the
\* await that rejected
catchError(c) ==
    [c EXCEPT !.error = c.pc, !.pc = "done", !.result = neutralMetrics]

\* the calculateAlphaSignature call: pc is "idle", "sentiment" (awaiting
\* getLatestSentiment), "history" (awaiting getStockPriceHistory), "store"
\* (awaiting addAlphaSignature) or "done"; rowsBefore is the number of
\* signature rows when the call began
IdleAlphaCall ==
    [pc |-> "idle", sentimentScore |-> Undef, priceHistory |-> <<>>,
     metrics |-> NoMetrics, result |-> NoMetrics, error |-> "none", rowsBefore |-> 0]

MaxSignatures == 2
MaxAppend == 2

SentimentSeeds ==
    { <<>>,
      <<[score |-> 8 * ScoreScale, timestamp |-> 2], [score |-> 3 * ScoreScale, timestamp |-> 1]>>,
      <<[score |-> 0, timestamp |-> 1]>>,
      <<[score |-> 10 * ScoreScale, timestamp |-> 1], [score |-> 2 * ScoreScale, timestamp |-> 1]>> }

PriceSeeds ==
    { <<>>,
      <<104, 100, 98, 101>>,
      <<103, 100, 102, 99, 100>>,
      <<110, 108, 107, 105, 104, 102, 101, 100, 100>>,
      <<100, 100, 100, 100, 100, 100, 100, 100, 100, 100>>,
      <<101, 101, 100, 100, 101, 100, 100, 98, 102, 101>>,
      <<100, 101, 99, 100, 102, 100, 98, 100, 101, 0>> }

PriceInputs == {0, 100, 105}

CalculateAlphaSignature ==
    /\ alphaCall.pc \in {"idle", "done"}
    /\ Len(alphaSignatures) < MaxSignatures
    /\ alphaCall' = [IdleAlphaCall EXCEPT !.pc = "sentiment",
                                          !.rowsBefore = Len(alphaSignatures)]
    /\ UNCHANGED <<sentimentData, stockPrices, alphaSignatures>>
    /\ UNCHANGED notAlphaVars

SentimentArrives ==
    /\ alphaCall.pc = "sentiment"
    /\ \E latestSentiment \in getLatestSentiment(sentimentData) :
          alphaCall' = [alphaCall EXCEPT !.pc = "history",
                           !.sentimentScore = sentimentScoreOf(latestSentiment)]
    /\ UNCHANGED <<sentimentData, stockPrices, alphaSignatures>>
    /\ UNCHANGED notAlphaVars

HistoryArrives ==
    /\ alphaCall.pc = "history"
    /\ LET priceHistory == getStockPriceHistory(stockPrices, historyLimit)
       IN alphaCall' = [alphaCall EXCEPT !.pc = "store",
                           !.priceHistory = priceHistory,
                           !.metrics = computeMetrics(alphaCall.sentimentScore, priceHistory)]
    /\ UNCHANGED <<sentimentData, stockPrices, alphaSignatures>>
    /\ UNCHANGED notAlphaVars

SignatureStored ==
    /\ alphaCall.pc = "store"
    /\ alphaSignatures' = addAlphaSignature(alphaSignatures, alphaCall.metrics, dbNow)
    /\ alphaCall' = [alphaCall EXCEPT !.pc = "done", !.result = alphaCall.metrics]
    /\ UNCHANGED <<sentimentData, stockPrices>>
    /\ UNCHANGED notAlphaVars

\* the storage call the service awaits rejects
StorageFails ==
    /\ alphaCall.pc \in {"sentiment", "history", "store"}
    /\ alphaCall' = catchError(alphaCall)
    /\ UNCHANGED <<sentimentData, stockPrices, alphaSignatures>>
    /\ UNCHANGED notAlphaVars

\* the quote route stores the price it served
AddStockPrice(price) ==
    /\ \E seed \in PriceSeeds : Len(stockPrices) < Len(seed) + MaxAppend
                                /\ Len(stockPrices) >= Len(seed)
                                /\ SubSeq(stockPrices, Len(stockPrices) - Len(seed) + 1,
                                          Len(stockPrices)) = seed
    /\ stockPrices' = addStockPrice(stockPrices, price)
    /\ UNCHANGED <<sentimentData, alphaSignatures, alphaCall>>
    /\ UNCHANGED notAlphaVars

AlphaInit ==
    /\ sentimentData \in SentimentSeeds
    /\ stockPrices \in PriceSeeds
    /\ alphaSignatures = <<>>
    /\ alphaCall = IdleAlphaCall

AlphaNext ==
    \/ CalculateAlphaSignature
    \/ SentimentArrives
    \/ HistoryArrives
    \/ SignatureStored
    \/ StorageFails
    \/ \E price \in PriceInputs : AddStockPrice(price)

----------------------------------------------------------------------------
(* DatabaseStorage: inserts and "latest row" queries of one symbol *)

MaxRows == 2
MaxDbNow == 2

NoQuery == [kind |-> "none"]

SentimentInputs == {3 * ScoreScale, 8 * ScoreScale}

SignatureInputs == {neutralMetrics, computeMetrics(8 * ScoreScale, <<>>)}

\* the sentiment and news routes store the analysed sentiment
AddSentimentData(score) ==
    /\ Len(sentimentData) < MaxRows
    /\ sentimentData' = addSentimentData(sentimentData, score, dbNow)
    /\ UNCHANGED <<alphaSignatures, dbNow, lastQuery>>
    /\ UNCHANGED notStoreVars

AddAlphaSignature(signature) ==
    /\ Len(alphaSignatures) < MaxRows
    /\ alphaSignatures' = addAlphaSignature(alphaSignatures, signature, dbNow)
    /\ UNCHANGED <<sentimentData, dbNow, lastQuery>>
    /\ UNCHANGED notStoreVars

\* the database's clock moves on between two inserts, or does not
DbClockAdvances ==
    /\ dbNow < MaxDbNow
    /\ dbNow' = dbNow + 1
    /\ UNCHANGED <<sentimentData, alphaSignatures, lastQuery>>
    /\ UNCHANGED notStoreVars

GetLatestSentiment ==
    /\ \E row \in getLatestSentiment(sentimentData) :
          lastQuery' = [kind |-> "sentiment", result |-> row]
    /\ UNCHANGED <<sentimentData, alphaSignatures, dbNow>>
    /\ UNCHANGED notStoreVars

GetAlphaSignatureBySymbol ==
    /\ \E row \in getAlphaSignatureBySymbol(alphaSignatures) :
          lastQuery' = [kind |-> "alpha", result |-> row]
    /\ UNCHANGED <<sentimentData, alphaSignatures, dbNow>>
    /\ UNCHANGED notStoreVars

StoreInit ==
    /\ sentimentData = <<>>
    /\ alphaSignatures = <<>>
    /\ stockPrices = <<>>
    /\ alphaCall = IdleAlphaCall
    /\ dbNow = 1
    /\ lastQuery = NoQuery

StoreNext ==
    \/ \E score \in SentimentInputs : AddSentimentData(score)
    \/ \E signature \in SignatureInputs : AddAlphaSignature(signature)
    \/ DbClockAdvances
    \/ GetLatestSentiment
    \/ GetAlphaSignatureBySymbol

----------------------------------------------------------------------------
(* BehavioralBiasAnalyzer: the rule-based detectors *)

\* A transaction is [symbol, type, price, timestamp]: price in cents,
\* timestamp in hundredths of a day relative to the analysis (now is 0).
\* A finding is [biasType, severity, confidence], confidence in
\* thousandths; a detector that finds nothing returns NoFinding (null).
DayUnit == 100
NoFinding == [none |-> TRUE]

\* the indices of seq whose element satisfies Test
Indices(seq, Test(_)) == {i \in DOMAIN seq : Test(seq[i])}

\* buyTransactions.filter(same symbol, earlier).sort(latest first)[0]: the
\* latest earlier buy, the first of them in the list when several are the
\* latest; 0 when there is none
correspondingBuy(transactions, sell) ==
    LET earlier == {i \in DOMAIN transactions :
                       /\ transactions[i].type = "buy"
                       /\ transactions[i].symbol = sell.symbol
                       /\ transactions[i].timestamp < sell.timestamp}
        latest == {i \in earlier :
                       \A j \in earlier : transactions[j].timestamp <= transactions[i].timestamp}
    IN IF earlier = {} THEN 0 ELSE CHOOSE i \in latest : \A j \in latest : i <= j

\* gainLoss > 5 and holdDays < 30
IsQuickSellWinner(sell, buy) ==
    /\ (sell.price - buy.price) * 100 > 5 * buy.price
    /\ sell.timestamp - buy.timestamp < 30 * DayUnit

\* gainLoss < -10 and holdDays > 90
IsHeldLoser(sell, buy) ==
    /\ (sell.price - buy.price) * 100 < 0 - 10 * buy.price
    /\ sell.timestamp - buy.timestamp > 90 * DayUnit

\* severity and confidence of a score n / d * 10 against the thresholds
\* low < medium < high (in points) and the cap of the confidence
FindingOf(biasType, n, d, medium, high, cap) ==
    [biasType |-> biasType,
     severity |-> IF 10 * n > high * d THEN "high"
                  ELSE IF 10 * n > medium * d THEN "medium" ELSE "low",
     confidence |-> Min(cap, Quot(n * ScoreScale, d))]

\* mutant: two matched sells are enough
detectLossAversion_two(transactions) ==
    LET matched == {i \in DOMAIN transactions :
                       /\ transactions[i].type = "sell"
                       /\ correspondingBuy(transactions, transactions[i]) # 0}
        buyOf(i) == transactions[correspondingBuy(transactions, transactions[i])]
        quickSellWinners == Cardinality({i \in matched :
                                IsQuickSellWinner(transactions[i], buyOf(i))})
        heldLosers == Cardinality({i \in matched :
                                IsHeldLoser(transactions[i], buyOf(i))})
        totalTrades == Cardinality(matched)
    IN IF totalTrades < 2 THEN NoFinding
       ELSE IF 10 * (quickSellWinners + heldLosers) > 3 * totalTrades
       THEN FindingOf("loss_aversion", quickSellWinners + heldLosers, totalTrades, 5, 7, 900)
       ELSE NoFinding

detectLossAversion(transactions) ==
    LET matched == {i \in DOMAIN transactions :
                       /\ transactions[i].type = "sell"
                       /\ correspondingBuy(transactions, transactions[i]) # 0}
        buyOf(i) == transactions[correspondingBuy(transactions, transactions[i])]
        quickSellWinners == Cardinality({i \in matched :
                                IsQuickSellWinner(transactions[i], buyOf(i))})
        heldLosers == Cardinality({i \in matched :
                                IsHeldLoser(transactions[i], buyOf(i))})
        totalTrades == Cardinality(matched)
    IN IF totalTrades < 3 THEN NoFinding
       ELSE IF 10 * (quickSellWinners + heldLosers) > 3 * totalTrades
       THEN FindingOf("loss_aversion", quickSellWinners + heldLosers, totalTrades, 5, 7, 900)
       ELSE NoFinding

\* overconfidenceScore = recentTransactions / 90 * 2 + (10 - diversificationScore) / 2,
\* here times 180: 4 * recentTransactions + 90 * (10 - diversificationScore)
detectOverconfidence(transactions, profile) ==
    LET recentTransactions ==
            Cardinality({i \in DOMAIN transactions :
                            transactions[i].timestamp > 0 - 90 * DayUnit})
        diversificationScore == profile.diversificationScore
        score180 == 4 * recentTransactions
                      + (90 * (10 * ScoreScale - diversificationScore)) \div ScoreScale
    IN IF score180 > 4 * 180
       THEN FindingOf("overconfidence", score180, 180 * 10, 6, 8, 850)
       ELSE NoFinding

\* per symbol with three transactions or more: anchored when more than 70 %
\* of its transactions are within 5 % of their average price
detectAnchoring(transactions) ==
    LET symbols == {transactions[i].symbol : i \in DOMAIN transactions}
        of(sym) == {i \in DOMAIN transactions : transactions[i].symbol = sym}
        counted == {sym \in symbols : Cardinality(of(sym)) >= 3}
        RECURSIVE sum(_)
        sum(is) == IF is = {} THEN 0
                   ELSE LET i == CHOOSE j \in is : TRUE
                        IN transactions[i].price + sum(is \ {i})
        abs(x) == IF x < 0 THEN 0 - x ELSE x
        clustered(sym) ==
            Cardinality({i \in of(sym) :
                abs(transactions[i].price * Cardinality(of(sym)) - sum(of(sym))) * 100
                   < 5 * sum(of(sym))})
        anchoringInstances ==
            Cardinality({sym \in counted :
                10 * clustered(sym) > 7 * Cardinality(of(sym))})
        totalSymbols == Cardinality(counted)
    IN IF totalSymbols = 0 THEN NoFinding
       ELSE IF 10 * anchoringInstances > 3 * totalSymbols
       THEN FindingOf("anchoring", anchoringInstances, totalSymbols, 5, 7, 800)
       ELSE NoFinding

\* a buy follows the herd when the first sentiment record of its symbol
\* within a day of it is positive with a score above 7
detectHerding(transactions, sentimentHistory) ==
    IF Len(sentimentHistory) < 10 THEN NoFinding
    ELSE LET buys == {i \in DOMAIN transactions : transactions[i].type = "buy"}
             near(i) == {k \in DOMAIN sentimentHistory :
                            /\ sentimentHistory[k].symbol = transactions[i].symbol
                            /\ sentimentHistory[k].timestamp - transactions[i].timestamp < DayUnit
                            /\ transactions[i].timestamp - sentimentHistory[k].timestamp < DayUnit}
             first(i) == sentimentHistory[CHOOSE k \in near(i) : \A l \in near(i) : k <= l]
             herdingInstances ==
                 Cardinality({i \in buys : /\ near(i) # {}
                                           /\ first(i).sentiment = "positive"
                                           /\ first(i).score > 7 * ScoreScale})
             buyTransactions == Cardinality(buys)
         IN IF buyTransactions = 0 THEN NoFinding
            ELSE IF 10 * herdingInstances > 4 * buyTransactions
            THEN FindingOf("herding", herdingInstances, buyTransactions, 6, 8, 750)
            ELSE NoFinding

detectConfirmationBias(transactions, sentimentHistory) == NoFinding

\* the findings in the order the detectors run, nulls left out
detectBiases(portfolio, transactions, sentimentHistory, profile) ==
    SelectSeq(<<detectLossAversion(transactions),
                detectOverconfidence(transactions, profile),
                detectAnchoring(transactions),
                detectHerding(transactions, sentimentHistory),
                detectConfirmationBias(transactions, sentimentHistory)>>,
              LAMBDA f : f # NoFinding)

----------------------------------------------------------------------------
(* BehavioralBiasAnalyzer: profile, narrative, fallbacks *)

\* A holding is [symbol, sector, assetType, shares, avgCost]: sector "" is
\* a null sector, avgCost in cents.  Scores are in units of 1/ScoreScale.
Holding(symbol, sector, assetType, shares) ==
    [symbol |-> symbol, sector |-> sector, assetType |-> assetType,
     shares |-> shares, avgCost |-> 10000]

\* min(10, uniqueSectors * 2 + uniqueAssetTypes * 1.5), before Math.round
diversificationOf(portfolio) ==
    LET uniqueSectors ==
            Cardinality({portfolio[i].sector : i \in DOMAIN portfolio} \ {""})
        uniqueAssetTypes ==
            Cardinality({portfolio[i].assetType : i \in DOMAIN portfolio})
    IN Min(10 * ScoreScale,
           uniqueSectors * 2 * ScoreScale + (uniqueAssetTypes * 15 * ScoreScale) \div 10)

\* Math.round of a score: the nearest whole number, halves up
MathRound(x) == ((x + ScoreScale \div 2) \div ScoreScale) * ScoreScale

calculateBehavioralProfile(portfolio, transactions) ==
    LET diversificationScore == diversificationOf(portfolio)
        recentTransactions ==
            Cardinality({i \in DOMAIN transactions :
                            transactions[i].timestamp > 0 - 90 * DayUnit})
        crypto == Cardinality({i \in DOMAIN portfolio : portfolio[i].assetType = "crypto"})
        n == Max(Len(portfolio), 1)
    IN [riskTolerance |-> IF 10 * crypto > 3 * n THEN "aggressive"
                          ELSE IF 10 * crypto > n THEN "moderate" ELSE "conservative",
        tradingFrequency |-> IF recentTransactions > 30 THEN "high"
                             ELSE IF recentTransactions > 10 THEN "medium" ELSE "low",
        diversificationScore |-> MathRound(diversificationScore)]

severityScore(severity) ==
    IF severity = "high" THEN 8 ELSE IF severity = "medium" THEN 5 ELSE 2

calculateOverallBiasScore(biases) ==
    IF Len(biases) = 0 THEN 2 * ScoreScale
    ELSE LET totalScore ==
                 SumSeq([i \in DOMAIN biases |->
                            severityScore(biases[i].severity) * biases[i].confidence])
         IN Min(10 * ScoreScale, Quot(totalScore, Len(biases)))

\* one buy per holding, dated Math.random() * 90 days before now; r is the
\* draw, in hundredths (the model makes one draw for all of them)
getUserTransactions(portfolio, r) ==
    [i \in DOMAIN portfolio |->
        [symbol |-> portfolio[i].symbol, type |-> "buy",
         price |-> portfolio[i].avgCost,
         timestamp |-> 0 - (r * 90 * DayUnit) \div 100]]

getUserSentimentHistory == <<>>

\* the answers of the completion: it throws, its content is not JSON, is
\* the JSON null, or is an object whose recommendations and risk level are
\* there or not ("" is a missing level)
LlmBiasReplies ==
    {[kind |-> "throws"], [kind |-> "notjson"], [kind |-> "null"]}
    \cup [kind : {"object"}, recommendations : BOOLEAN, level : {"", "low", "extreme"}]

\* the narrative [recommendations, level]: recommendations names the text
\* that was used
getAIBiasAnalysis(detectedBiases, reply) ==
    IF reply.kind = "object"
    THEN [recommendations |-> IF reply.recommendations THEN "llm" ELSE "default",
          level |-> IF reply.level = "" THEN "medium" ELSE reply.level]
    ELSE [recommendations |-> "substitute",
          level |-> IF Len(detectedBiases) > 2 THEN "high"
                    ELSE IF Len(detectedBiases) > 0 THEN "medium" ELSE "low"]

sectorMap ==
    [AAPL |-> "Technology", MSFT |-> "Technology", GOOGL |-> "Technology",
     NVDA |-> "Technology", AMZN |-> "Consumer Discretionary",
     TSLA |-> "Consumer Discretionary", NFLX |-> "Communication",
     META |-> "Communication", JPM |-> "Financials", BAC |-> "Financials",
     JNJ |-> "Healthcare", PFE |-> "Healthcare", XOM |-> "Energy", CVX |-> "Energy",
     WMT |-> "Consumer Staples", PG |-> "Consumer Staples", KO |-> "Consumer Staples"]

getSectorForSymbol(symbol) ==
    IF symbol \in DOMAIN sectorMap THEN sectorMap[symbol] ELSE "Other"

\* the first copy's fallback, once its portfolio read has answered
getProductionFallbackAnalysis(portfolio) ==
    LET n == Len(portfolio)
        portfolioValue ==
            SumSeq([i \in DOMAIN portfolio |->
                       (portfolio[i].shares * portfolio[i].avgCost) \div 100])
        uniqueSectors ==
            Cardinality({getSectorForSymbol(portfolio[i].symbol) : i \in DOMAIN portfolio})
        diversificationScore ==
            Min(100 * ScoreScale, (uniqueSectors * 20 + n * 5) * ScoreScale)
        domesticStocks ==
            Cardinality({i \in DOMAIN portfolio :
                portfolio[i].symbol \in {"AAPL", "MSFT", "GOOGL", "AMZN", "TSLA"}})
        detectedBiases ==
            (IF uniqueSectors < 3 /\ n > 2
             THEN <<[biasType |-> "confirmation_bias", severity |-> "medium",
                     confidence |-> 750]>> ELSE <<>>)
            \o (IF n > 10 /\ uniqueSectors < 4
                THEN <<[biasType |-> "overconfidence", severity |-> "low",
                        confidence |-> 650]>> ELSE <<>>)
            \o (IF 10 * domesticStocks > 8 * n /\ n > 3
                THEN <<[biasType |-> "herding", severity |-> "medium",
                        confidence |-> 700]>> ELSE <<>>)
    IN [overallBiasScore |->
            Min(10 * ScoreScale,
                3 * ScoreScale + (Len(detectedBiases) * 15 * ScoreScale) \div 10
                  + (IF uniqueSectors < 3 THEN ScoreScale ELSE 0)),
        detectedBiases |-> detectedBiases,
        behavioralProfile |->
            [riskTolerance |-> IF portfolioValue > 50000 THEN "aggressive"
                               ELSE IF portfolioValue > 10000 THEN "moderate"
                               ELSE "conservative",
             tradingFrequency |-> "medium",
             diversificationScore |-> diversificationScore],
        narrative |-> [recommendations |-> "production",
                       level |-> IF diversificationScore > 60 * ScoreScale
                                 THEN "medium" ELSE "high"]]

\* the first copy's fallback when its portfolio read fails as well
minimalFallbackAnalysis ==
    [overallBiasScore |-> 5 * ScoreScale,
     detectedBiases |-> <<>>,
     behavioralProfile |-> [riskTolerance |-> "moderate", tradingFrequency |-> "medium",
                            diversificationScore |-> 50 * ScoreScale],
     narrative |-> [recommendations |-> "minimal", level |-> "medium"]]

\* the second copy's fallback, once its portfolio read has answered
getFallbackAnalysis(portfolio) ==
    [overallBiasScore |-> 5 * ScoreScale,
     detectedBiases |-> <<>>,
     behavioralProfile |-> [riskTolerance |-> "moderate", tradingFrequency |-> "medium",
                            diversificationScore |->
                                Min(10 * ScoreScale, Len(portfolio) * 2 * ScoreScale)],
     narrative |-> [recommendations |-> "basic", level |-> "medium"]]

\* the report of the main path, from the completion's answer on
analysisReport(portfolio, transactions, reply) ==
    LET behavioralProfile == calculateBehavioralProfile(portfolio, transactions)
        detectedBiases == detectBiases(portfolio, transactions,
                                       getUserSentimentHistory, behavioralProfile)
    IN [overallBiasScore |-> calculateOverallBiasScore(detectedBiases),
        detectedBiases |-> detectedBiases,
        behavioralProfile |-> behavioralProfile,
        narrative |-> getAIBiasAnalysis(detectedBiases, reply)]

\* the fallback's own portfolio read fails: the first copy
\* (getProductionFallbackAnalysis) catches it, the second copy
\* (getFallbackAnalysis) has no catch and the call rejects
fallbackFailed(copy) ==
    IF copy = "production" THEN minimalFallbackAnalysis ELSE Thrown

----------------------------------------------------------------------------
(* BehavioralBiasAnalyzer: analyzeBehavioralBiases *)

NoReport == [none |-> TRUE]

\* the analyzeBehavioralBiases call: pc is "idle", "portfolio" (awaiting
\* getPortfolioByUserId), "transactions" (awaiting getUserTransactions'
\* portfolio read), "llm" (awaiting the completion), "fallback" (awaiting
\* the fallback's portfolio read) or "done"
IdleBiasCall ==
    [pc |-> "idle", portfolio |-> <<>>, transactions |-> <<>>, reply |-> NoReply,
     result |-> NoReport]

AnalyzerCopies == {"production", "basic"}

\* symbols of technology stocks; the first four are in sectorMap
TechSymbols ==
    << "AAPL", "MSFT", "GOOGL", "NVDA", "TECH05", "TECH06",
       "TECH07", "TECH08", "TECH09", "TECH10", "TECH11", "TECH12",
       "TECH13", "TECH14", "TECH15", "TECH16", "TECH17", "TECH18",
       "TECH19", "TECH20", "TECH21", "TECH22", "TECH23", "TECH24",
       "TECH25", "TECH26", "TECH27", "TECH28", "TECH29", "TECH30",
       "TECH31", "TECH32", "TECH33", "TECH34", "TECH35", "TECH36" >>

TechHoldings(n) == [i \in 1..n |-> Holding(TechSymbols[i], "Technology", "stock", 10)]

Portfolios ==
    { <<>>,
      <<Holding("AAPL", "Technology", "stock", 10)>>,
      <<Holding("BTC-USD", "", "crypto", 10)>>,
      <<Holding("AAPL", "Technology", "stock", 10), Holding("MSFT", "Technology", "stock", 10),
        Holding("GOOGL", "Technology", "stock", 10)>>,
      <<Holding("AAPL", "Technology", "stock", 10), Holding("MSFT", "Technology", "stock", 10),
        Holding("GOOGL", "Technology", "stock", 10),
        Holding("AMZN", "Consumer Discretionary", "stock", 10)>>,
      <<Holding("AAPL", "Technology", "stock", 600), Holding("JPM", "Financials", "stock", 10),
        Holding("XOM", "Energy", "stock", 10), Holding("BTC-USD", "", "crypto", 10),
        Holding("SPY", "", "etf", 10), Holding("GLD", "", "commodity", 10)>>,
      <<Holding("KO", "Consumer Staples", "stock", 10), Holding("KO", "Consumer Staples", "stock", 10),
        Holding("KO", "Consumer Staples", "stock", 10)>>,
      TechHoldings(11),
      TechHoldings(36) }

AnalyzeBehavioralBiases ==
    /\ biasCall.pc \in {"idle", "done"}
    /\ biasCall' = [IdleBiasCall EXCEPT !.pc = "portfolio"]
    /\ UNCHANGED <<holdings, analyzerCopy>>
    /\ UNCHANGED notBiasVars

PortfolioArrives ==
    /\ biasCall.pc = "portfolio"
    /\ biasCall' = [biasCall EXCEPT !.pc = "transactions", !.portfolio = holdings]
    /\ UNCHANGED <<holdings, analyzerCopy>>
    /\ UNCHANGED notBiasVars

TransactionsArrive ==
    /\ biasCall.pc = "transactions"
    /\ \E r \in RandSet :
          biasCall' = [biasCall EXCEPT !.pc = "llm",
                          !.transactions = getUserTransactions(holdings, r)]
    /\ UNCHANGED <<holdings, analyzerCopy>>
    /\ UNCHANGED notBiasVars

BiasLlmReturns(reply) ==
    /\ biasCall.pc = "llm"
    /\ biasCall' = [biasCall EXCEPT !.pc = "done", !.reply = reply,
                       !.result = analysisReport(biasCall.portfolio,
                                                 biasCall.transactions, reply)]
    /\ UNCHANGED <<holdings, analyzerCopy>>
    /\ UNCHANGED notBiasVars

\* a portfolio read of the main path rejects: the catch block calls the
\* fallback of the copy, which reads the portfolio again
BiasStorageFails ==
    /\ biasCall.pc \in {"portfolio", "transactions"}
    /\ biasCall' = [biasCall EXCEPT !.pc = "fallback"]
    /\ UNCHANGED <<holdings, analyzerCopy>>
    /\ UNCHANGED notBiasVars

FallbackPortfolioArrives ==
    /\ biasCall.pc = "fallback"
    /\ biasCall' = [biasCall EXCEPT !.pc = "done",
                       !.result = IF analyzerCopy = "production"
                                  THEN getProductionFallbackAnalysis(holdings)
                                  ELSE getFallbackAnalysis(holdings)]
    /\ UNCHANGED <<holdings, analyzerCopy>>
    /\ UNCHANGED notBiasVars

FallbackStorageFails ==
    /\ biasCall.pc = "fallback"
    /\ biasCall' = [biasCall EXCEPT !.pc = "done", !.result = fallbackFailed(analyzerCopy)]
    /\ UNCHANGED <<holdings, analyzerCopy>>
    /\ UNCHANGED notBiasVars

BiasInit ==
    /\ holdings \in Portfolios
    /\ analyzerCopy \in AnalyzerCopies
    /\ biasCall = IdleBiasCall

BiasNext ==
    \/ AnalyzeBehavioralBiases
    \/ PortfolioArrives
    \/ TransactionsArrive
    \/ \E reply \in LlmBiasReplies : BiasLlmReturns(reply)
    \/ BiasStorageFails
    \/ FallbackPortfolioArrives
    \/ FallbackStorageFails

----------------------------------------------------------------------------
(* detectLossAversion on drawn transactions *)

MaxSells == 3

NoLoss == [none |-> TRUE]

Txn(symbol, type, price, day) ==
    [symbol |-> symbol, type |-> type, price |-> price, timestamp |-> day * DayUnit]

\* one or two earlier buys of A
BuyLists ==
    { <<Txn("A", "buy", 10000, 0 - 200)>>,
      <<Txn("A", "buy", 10000, 0 - 200), Txn("A", "buy", 12000, 0 - 150)>> }

\* sells of A: a winner sold within 30 days of the first buy, a loser held
\* beyond 90 days, a flat sale, a sale before any buy; and a sell of B,
\* which was never bought
SellInputs ==
    { Txn("A", "sell", 11000, 0 - 190),
      Txn("A", "sell", 8000, 0 - 40),
      Txn("A", "sell", 10000, 0 - 100),
      Txn("A", "sell", 11000, 0 - 300),
      Txn("B", "sell", 11000, 0 - 10) }

SellLists == UNION {[1..n -> SellInputs] : n \in 0..MaxSells}

ApplyLossAversion ==
    /\ lossOut = NoLoss
    /\ lossOut' = [finding |-> detectLossAversion(lossIn)]
    /\ UNCHANGED lossIn
    /\ UNCHANGED notLossVars

LossInit ==
    /\ lossIn \in {buys \o sells : buys \in BuyLists, sells \in SellLists}
    /\ lossOut = NoLoss

LossNext == ApplyLossAversion

----------------------------------------------------------------------------
(* GET /api/market/trends *)

trendSymbols == <<"AAPL", "TSLA", "GOOGL", "MSFT", "AMZN">>

\* what a provider's fetch comes to: a body with a price, a non-OK status,
\* a body without a price, a rejected fetch, the 5 s AbortSignal.timeout
TrendResponses == {"quote", "nonOk", "noPrice", "networkError", "timeout"}

\* the fetch, or the handling of its response, throws
TrendThrows(response) == response \in {"networkError", "timeout"}

\* the three static rows of the outer catch block
staticTrends == <<[symbol |-> "AAPL", provider |-> "none"],
                  [symbol |-> "TSLA", provider |-> "none"],
                  [symbol |-> "GOOGL", provider |-> "none"]>>

\* the handler: pc is "idle", "alpha" (awaiting Alpha Vantage for
\* trendSymbols[i]), "finnhub" (awaiting Finnhub for it) or "done"; last is
\* what Alpha Vantage answered for trendSymbols[i]
IdleTrendsCall == [pc |-> "idle", i |-> 0, last |-> "none", data |-> <<>>, body |-> <<>>]

\* the loop goes on to symbol i + 1, or the handler responds
nextSymbol(call, data) ==
    IF call.i < Len(trendSymbols)
    THEN [pc |-> IF ALPHA_KEY THEN "alpha" ELSE "finnhub", i |-> call.i + 1,
          last |-> "none", data |-> data, body |-> <<>>]
    ELSE [pc |-> "done", i |-> call.i, last |-> call.last, data |-> data,
          body |-> IF data = <<>> THEN staticTrends ELSE data]

GetMarketTrends ==
    /\ trendsCall.pc \in {"idle", "done"}
    /\ trendsCall' = IF ~ALPHA_KEY /\ ~FINNHUB_KEY
                     THEN [IdleTrendsCall EXCEPT !.pc = "done", !.body = staticTrends]
                     ELSE nextSymbol(IdleTrendsCall, <<>>)
    /\ UNCHANGED <<ALPHA_KEY, FINNHUB_KEY>>
    /\ UNCHANGED notTrendsVars

TrendsAlphaReturns(response) ==
    /\ trendsCall.pc = "alpha"
    /\ trendsCall' =
          IF response = "quote"
          THEN nextSymbol([trendsCall EXCEPT !.last = response],
                          Append(trendsCall.data,
                                 [symbol |-> trendSymbols[trendsCall.i],
                                  provider |-> "Alpha Vantage"]))
          ELSE IF TrendThrows(response) \/ ~FINNHUB_KEY
          THEN nextSymbol([trendsCall EXCEPT !.last = response], trendsCall.data)
          ELSE [trendsCall EXCEPT !.pc = "finnhub", !.last = response]
    /\ UNCHANGED <<ALPHA_KEY, FINNHUB_KEY>>
    /\ UNCHANGED notTrendsVars

TrendsFinnhubReturns(response) ==
    /\ trendsCall.pc = "finnhub"
    /\ trendsCall' =
          IF response = "quote"
          THEN nextSymbol(trendsCall,
                          Append(trendsCall.data,
                                 [symbol |-> trendSymbols[trendsCall.i],
                                  provider |-> "Finnhub"]))
          ELSE nextSymbol(trendsCall, trendsCall.data)
    /\ UNCHANGED <<ALPHA_KEY, FINNHUB_KEY>>
    /\ UNCHANGED notTrendsVars

TrendsInit ==
    /\ ALPHA_KEY \in BOOLEAN
    /\ FINNHUB_KEY \in BOOLEAN
    /\ trendsCall = IdleTrendsCall

TrendsNext ==
    \/ GetMarketTrends
    \/ \E response \in TrendResponses : TrendsAlphaReturns(response)
    \/ \E response \in TrendResponses : TrendsFinnhubReturns(response)

----------------------------------------------------------------------------
(* determineAssetType on drawn symbols *)

MaxParts == 2

NoType == "none"

\* parts of symbols: currency codes, the Yahoo forex marker, a crypto root,
\* an ETF, and letters that are none of these
SymbolParts ==
    { <<"E","U","R">>, <<"e","u","r">>, <<"U","S","D">>, <<"G","B","P">>,
      <<"J","P","Y">>, <<"=","X">>, <<"B","T","C">>, <<"S","P","Y">>,
      <<"N">>, <<"A","L">> }

RECURSIVE SymbolsOf(_)
SymbolsOf(n) ==
    IF n = 0 THEN {<<>>}
    ELSE {p \o rest : p \in SymbolParts, rest \in SymbolsOf(n - 1)}

DrawnSymbols == UNION {SymbolsOf(n) : n \in 1..MaxParts}

ApplyDetermineAssetType ==
    /\ typeOut = NoType
    /\ typeOut' = determineAssetType(typeIn)
    /\ UNCHANGED typeIn
    /\ UNCHANGED notTypeVars

TypeInit ==
    /\ typeIn \in DrawnSymbols
    /\ typeOut = NoType

TypeNext == ApplyDetermineAssetType

----------------------------------------------------------------------------
(* RealTimeMarketDataService: getMultipleQuotes *)

batchSize == 5
MaxBatchSymbols == 7

\* the symbols asked for: the first n of these
batchSymbols == <<"AAPL", "MSFT", "GOOGL", "AMZN", "TSLA", "SPY", "NVDA", "META", "JPM">>

\* what a getQuote call of the batch resolves to: the quote of a provider
\* or the mock quote (getQuote returns no null)
QuoteOutcomes == {"yahoo", "mock"}

\* the getMultipleQuotes call: pc is "idle", "batch" (awaiting Promise.all
\* of the getQuote calls of symbols[i+1 .. i+batchSize]), "delay" (awaiting
\* the 200 ms timer) or "done"; quotes[j] is "unstarted", "pending" or what
\* the getQuote call of symbols[j] resolved to
IdleManyCall == [pc |-> "idle", symbols |-> <<>>, i |-> 0, quotes |-> <<>>, results |-> <<>>]

batchOf(c) == {j \in DOMAIN c.symbols : j > c.i /\ j <= c.i + batchSize}

\* batch.map(symbol => this.getQuote(symbol)): every call of the batch runs
\* up to its first await
startBatch(c) ==
    IF c.i < Len(c.symbols)
    THEN [c EXCEPT !.pc = "batch",
                   !.quotes = [j \in DOMAIN c.symbols |->
                                  IF j \in batchOf(c) THEN "pending" ELSE c.quotes[j]]]
    ELSE [c EXCEPT !.pc = "done"]

\* mutant: the batch is over with its first resolved call
batchResolved_first(c) == \E j \in batchOf(c) : c.quotes[j] # "pending"

\* Promise.all resolves: every call of the batch has resolved
batchResolved(c) == \A j \in batchOf(c) : c.quotes[j] # "pending"

\* results.push(...quotes.filter(quote => quote !== null))
pushQuotes(c) ==
    LET quotes == [k \in 1..Cardinality(batchOf(c)) |->
                      [symbol |-> c.symbols[c.i + k], tier |-> c.quotes[c.i + k]]]
        notNull(quote) == quote.tier # "null"
    IN c.results \o SelectSeq(quotes, notNull)

GetMultipleQuotes(n) ==
    /\ manyCall.pc \in {"idle", "done"}
    /\ manyCall' = startBatch([IdleManyCall EXCEPT
                                  !.symbols = SubSeq(batchSymbols, 1, n),
                                  !.quotes = [j \in 1..n |-> "unstarted"]])
    /\ UNCHANGED notManyVars

BatchQuoteResolves(j, outcome) ==
    /\ manyCall.pc = "batch"
    /\ j \in DOMAIN manyCall.quotes
    /\ manyCall.quotes[j] = "pending"
    /\ manyCall' = [manyCall EXCEPT !.quotes[j] = outcome]
    /\ UNCHANGED notManyVars

\* the continuation after Promise.all: push, then the delay when symbols
\* are left, else return
BatchCompletes ==
    /\ manyCall.pc = "batch"
    /\ batchResolved(manyCall)
    /\ manyCall' = [manyCall EXCEPT
                       !.results = pushQuotes(manyCall),
                       !.pc = IF manyCall.i + batchSize < Len(manyCall.symbols)
                              THEN "delay" ELSE "done"]
    /\ UNCHANGED notManyVars

DelayElapses ==
    /\ manyCall.pc = "delay"
    /\ manyCall' = startBatch([manyCall EXCEPT !.i = manyCall.i + batchSize])
    /\ UNCHANGED notManyVars

ManyInit == manyCall = IdleManyCall

ManyNext ==
    \/ \E n \in 0..MaxBatchSymbols : GetMultipleQuotes(n)
    \/ \E j \in 1..MaxBatchSymbols, outcome \in QuoteOutcomes : BatchQuoteResolves(j, outcome)
    \/ BatchCompletes
    \/ DelayElapses

----------------------------------------------------------------------------
(* detectHerding on drawn sentiment histories *)

MaxHerdRecords == 3

NoHerd == [none |-> TRUE]

SentimentRecord(symbol, sentiment, score, hours) ==
    [symbol |-> symbol, sentiment |-> sentiment, score |-> score * ScoreScale,
     timestamp |-> (hours * DayUnit) \div 24]

\* one buy of AAPL at time 0
HerdBuys == <<Txn("AAPL", "buy", 10000, 0)>>

\* records of AAPL: positive 9 an hour after the buy, neutral 5 an hour
\* before it, positive 9 two days before it, positive 7 (not above 7) and
\* negative 2 near it
HerdRecords ==
    { SentimentRecord("AAPL", "positive", 9, 1),
      SentimentRecord("AAPL", "neutral", 5, 0 - 1),
      SentimentRecord("AAPL", "positive", 9, 0 - 48),
      SentimentRecord("AAPL", "positive", 7, 2),
      SentimentRecord("AAPL", "negative", 2, 0 - 2) }

\* records of another symbol that bring the history to 10 records
OtherRecords(n) == [k \in 1..n |-> SentimentRecord("MSFT", "positive", 9, 0)]

HerdHistories ==
    UNION {{records \o OtherRecords(10 - n) : records \in [1..n -> HerdRecords]} :
              n \in 1..MaxHerdRecords}

ApplyDetectHerding ==
    /\ herdOut = NoHerd
    /\ herdOut' = [finding |-> detectHerding(herdIn.transactions, herdIn.sentimentHistory)]
    /\ UNCHANGED herdIn
    /\ UNCHANGED notHerdVars

HerdInit ==
    /\ herdIn \in [transactions : {HerdBuys}, sentimentHistory : HerdHistories]
    /\ herdOut = NoHerd

HerdNext == ApplyDetectHerding

----------------------------------------------------------------------------
(* marketTrendAnalysis: getCachedMarketTrendAnalysis, refreshMarketTrendAnalysis *)

CACHE_DURATION == 300000
\* granularity of the clock: two steps per cache lifetime
trendTick == CACHE_DURATION \div 2

MaxGenerations == 3
MaxTrendTicks == 3

NoAnalysis == [absent |-> TRUE]
NoTrendReturn == [none |-> TRUE]

\* an analysis is named by the number of the generateMarketTrendAnalysis
\* call that made it; the numbers grow in the order the calls start

\* cached && (now - cached.timestamp) < CACHE_DURATION
analysisFresh(cache, t) ==
    cache # NoAnalysis /\ t - cache.timestamp < CACHE_DURATION

\* getCachedMarketTrendAnalysis up to its await, on the cache as given:
\* a hit returns the cached data, a miss starts a generation.  seen is
\* the analysis the latest refresh had returned when the call was made.
getCachedBegin(cache, isRefresh) ==
    IF analysisFresh(cache, trendNow)
    THEN /\ trendReturn' = [data |-> cache.data, seen |-> lastRefresh, hit |-> TRUE]
         /\ UNCHANGED <<generations, pendingAnalyses>>
    ELSE /\ generations < MaxGenerations
         /\ generations' = generations + 1
         /\ pendingAnalyses' = pendingAnalyses \cup
               {[data |-> generations + 1, now |-> trendNow, seen |-> lastRefresh,
                 refresh |-> isRefresh]}
         /\ UNCHANGED trendReturn

GetCachedMarketTrendAnalysis ==
    /\ getCachedBegin(analysisCache, FALSE)
    /\ UNCHANGED <<trendNow, analysisCache, lastRefresh>>
    /\ UNCHANGED notAnalysisVars

\* analysisCache.delete(userId), then getCachedMarketTrendAnalysis
RefreshMarketTrendAnalysis ==
    /\ analysisCache' = NoAnalysis
    /\ getCachedBegin(NoAnalysis, TRUE)
    /\ UNCHANGED <<trendNow, lastRefresh>>
    /\ UNCHANGED notAnalysisVars

\* the generation of call c resolves: analysisCache.set(userId, { data:
\* analysis, timestamp: now }) with the now of the call's start
GenerationResolves(c) ==
    /\ c \in pendingAnalyses
    /\ analysisCache' = [data |-> c.data, timestamp |-> c.now]
    /\ pendingAnalyses' = pendingAnalyses \ {c}
    /\ trendReturn' = [data |-> c.data, seen |-> c.seen, hit |-> FALSE]
    /\ lastRefresh' = IF c.refresh /\ c.data > lastRefresh THEN c.data ELSE lastRefresh
    /\ UNCHANGED <<trendNow, generations>>
    /\ UNCHANGED notAnalysisVars

\* the generation rejects (the portfolio read of its catch block fails):
\* the call rejects and stores nothing
GenerationRejects(c) ==
    /\ c \in pendingAnalyses
    /\ pendingAnalyses' = pendingAnalyses \ {c}
    /\ UNCHANGED <<trendNow, analysisCache, generations, lastRefresh, trendReturn>>
    /\ UNCHANGED notAnalysisVars

\* the calls that can be awaiting a generation
AnalysisCalls ==
    [data : 1..MaxGenerations, now : {k * trendTick : k \in 0..MaxTrendTicks},
     seen : 0..MaxGenerations, refresh : BOOLEAN]

TrendClockTick ==
    /\ trendNow < MaxTrendTicks * trendTick
    /\ trendNow' = trendNow + trendTick
    /\ UNCHANGED <<analysisCache, generations, pendingAnalyses, lastRefresh, trendReturn>>
    /\ UNCHANGED notAnalysisVars

AnalysisInit ==
    /\ trendNow = 0
    /\ analysisCache = NoAnalysis
    /\ generations = 0
    /\ pendingAnalyses = {}
    /\ lastRefresh = 0
    /\ trendReturn = NoTrendReturn

AnalysisNext ==
    \/ GetCachedMarketTrendAnalysis
    \/ RefreshMarketTrendAnalysis
    \/ \E c \in AnalysisCalls : GenerationResolves(c)
    \/ \E c \in AnalysisCalls : GenerationRejects(c)
    \/ TrendClockTick

----------------------------------------------------------------------------
(* The scoring functions on drawn scores *)

NoScore == [none |-> TRUE]

ScoreGrid == {k * ScoreScale : k \in 0..10} \cup {NaN}

ApplyScore ==
    /\ scoreOut = NoScore
    /\ LET alphaScore == calculateAlphaScore(scoreIn.sentiment, scoreIn.volatility,
                                             scoreIn.momentum)
       IN scoreOut' = [alphaScore |-> alphaScore, signal |-> generateSignal(alphaScore)]
    /\ UNCHANGED scoreIn
    /\ UNCHANGED notScoreVars

ScoreInit ==
    /\ scoreIn \in [sentiment : ScoreGrid, volatility : ScoreGrid, momentum : ScoreGrid]
    /\ scoreOut = NoScore

ScoreNext == ApplyScore

----------------------------------------------------------------------------
(* Specifications *)

\* each specification runs one component and leaves the others as constructed
QuoteIdle ==
    /\ now = 0 /\ nextCron = cronPeriod /\ alphaVantageKey = FALSE
    /\ priceCache = [s \in Symbols |-> NoEntry]
    /\ calls = EmptyBag /\ lastReturn = NoReturn
    /\ refresh = [s \in Symbols |-> NewCall]
SentIdle == openaiKey = FALSE /\ sentCall = IdleSentCall
AlphaIdle ==
    /\ sentimentData = <<>> /\ stockPrices = <<>> /\ alphaSignatures = <<>>
    /\ alphaCall = IdleAlphaCall
ScoreIdle == scoreIn = NoScore /\ scoreOut = NoScore
StoreIdle == dbNow = 1 /\ lastQuery = NoQuery
BiasIdle == holdings = <<>> /\ analyzerCopy = "production" /\ biasCall = IdleBiasCall
LossIdle == lossIn = <<>> /\ lossOut = NoLoss
TrendsIdle == ALPHA_KEY = FALSE /\ FINNHUB_KEY = FALSE /\ trendsCall = IdleTrendsCall
TypeIdle == typeIn = <<>> /\ typeOut = NoType
ManyIdle == manyCall = IdleManyCall
HerdIdle == herdIn = <<>> /\ herdOut = NoHerd
AnalysisIdle == AnalysisInit

InitQuote == QuoteInit /\ SentIdle /\ AlphaIdle /\ ScoreIdle /\ StoreIdle /\ BiasIdle /\ LossIdle
    /\ TrendsIdle /\ TypeIdle /\ ManyIdle /\ HerdIdle /\ AnalysisIdle

SpecQuote == InitQuote /\ [][QuoteNext]_vars

InitSent == SentInit /\ QuoteIdle /\ AlphaIdle /\ ScoreIdle /\ StoreIdle /\ BiasIdle /\ LossIdle
    /\ TrendsIdle /\ TypeIdle /\ ManyIdle /\ HerdIdle /\ AnalysisIdle

SpecSent == InitSent /\ [][SentNext]_vars

InitAlpha == AlphaInit /\ QuoteIdle /\ SentIdle /\ ScoreIdle /\ StoreIdle /\ BiasIdle /\ LossIdle
    /\ TrendsIdle /\ TypeIdle /\ ManyIdle /\ HerdIdle /\ AnalysisIdle

SpecAlpha == InitAlpha /\ [][AlphaNext]_vars

InitScore == ScoreInit /\ QuoteIdle /\ SentIdle /\ AlphaIdle /\ StoreIdle /\ BiasIdle /\ LossIdle
    /\ TrendsIdle /\ TypeIdle /\ ManyIdle /\ HerdIdle /\ AnalysisIdle

SpecScore == InitScore /\ [][ScoreNext]_vars

InitStore == StoreInit /\ QuoteIdle /\ SentIdle /\ ScoreIdle /\ BiasIdle /\ LossIdle
    /\ TrendsIdle /\ TypeIdle /\ ManyIdle /\ HerdIdle /\ AnalysisIdle

SpecStore == InitStore /\ [][StoreNext]_vars

InitBias == BiasInit /\ QuoteIdle /\ SentIdle /\ AlphaIdle /\ ScoreIdle /\ StoreIdle /\ LossIdle
    /\ TrendsIdle /\ TypeIdle /\ ManyIdle /\ HerdIdle /\ AnalysisIdle

SpecBias == InitBias /\ [][BiasNext]_vars

InitLoss == LossInit /\ QuoteIdle /\ SentIdle /\ AlphaIdle /\ ScoreIdle /\ StoreIdle /\ BiasIdle
    /\ TrendsIdle /\ TypeIdle /\ ManyIdle /\ HerdIdle /\ AnalysisIdle

SpecLoss == InitLoss /\ [][LossNext]_vars

InitTrends == TrendsInit /\ QuoteIdle /\ SentIdle /\ AlphaIdle /\ ScoreIdle /\ StoreIdle
    /\ BiasIdle /\ LossIdle /\ TypeIdle /\ ManyIdle /\ HerdIdle /\ AnalysisIdle

SpecTrends == InitTrends /\ [][TrendsNext]_vars

InitType == TypeInit /\ QuoteIdle /\ SentIdle /\ AlphaIdle /\ ScoreIdle /\ StoreIdle
    /\ BiasIdle /\ LossIdle /\ TrendsIdle /\ ManyIdle /\ HerdIdle /\ AnalysisIdle

SpecType == InitType /\ [][TypeNext]_vars

InitMany == ManyInit /\ QuoteIdle /\ SentIdle /\ AlphaIdle /\ ScoreIdle /\ StoreIdle
    /\ BiasIdle /\ LossIdle /\ TrendsIdle /\ TypeIdle /\ HerdIdle /\ AnalysisIdle

SpecMany == InitMany /\ [][ManyNext]_vars

InitHerd == HerdInit /\ QuoteIdle /\ SentIdle /\ AlphaIdle /\ ScoreIdle /\ StoreIdle
    /\ BiasIdle /\ LossIdle /\ TrendsIdle /\ TypeIdle /\ ManyIdle /\ AnalysisIdle

SpecHerd == InitHerd /\ [][HerdNext]_vars

InitAnalysis == AnalysisInit /\ QuoteIdle /\ SentIdle /\ AlphaIdle /\ ScoreIdle /\ StoreIdle
    /\ BiasIdle /\ LossIdle /\ TrendsIdle /\ TypeIdle /\ ManyIdle /\ HerdIdle

SpecAnalysis == InitAnalysis /\ [][AnalysisNext]_vars

----------------------------------------------------------------------------
(* Quote Resolver: properties *)

QuoteFields ==
    {"symbol", "price", "change", "changePercent", "volume", "assetType",
     "lastUpdated", "tier", "fetchedAt"}

IsQuote(q) == q # NullQuote /\ DOMAIN q = QuoteFields

\* the fields of the Quote the callers see
SameQuote(p, q) ==
    /\ p.symbol = q.symbol /\ p.price = q.price /\ p.change = q.change
    /\ p.changePercent = q.changePercent /\ p.volume = q.volume
    /\ p.assetType = q.assetType /\ p.lastUpdated = q.lastUpdated

\* C1: every getQuote call a handler gets back returned a Quote, never null,
\* whatever the providers answered and whether or not a key is configured;
\* and what updateCachedPrices stores is a Quote too.
C1_GetQuoteReturnsQuote ==
    /\ lastReturn # NoReturn => IsQuote(lastReturn.result)
    /\ \A s \in Symbols : priceCache[s] # NoEntry => IsQuote(priceCache[s].data)

\* C1 witness: with a key configured, Yahoo and Alpha Vantage both gave
\* nothing for a stock and the call returned the mock quote.
C1_Witness ==
    /\ lastReturn # NoReturn
    /\ alphaVantageKey
    /\ lastReturn.symbol = AAPL
    /\ ~lastReturn.fromCache
    /\ lastReturn.result.tier = "mock"

\* C2 (as claimed): a call for the same symbol made less than cacheTimeout
\* after the previous call returns the same Quote.  (A provider request
\* outlives at most one clock step, so a call made two steps after another
\* was made after that one had returned.)
C2_IdempotentWithinTTL ==
    [][(/\ lastReturn # NoReturn
        /\ lastReturn'.symbol = lastReturn.symbol
        /\ lastReturn'.started - lastReturn.started >= 2 * Tick
        /\ lastReturn'.started - lastReturn.started < cacheTimeout)
       => SameQuote(lastReturn'.result, lastReturn.result)]_vars

\* C3 (as claimed): a quote served from the cache was fetched from a provider
\* at most cacheTimeout before the request, and a cache entry's timestamp is
\* the time its data was fetched.
C3_StalenessBounded ==
    /\ (lastReturn # NoReturn /\ lastReturn.fromCache)
          => /\ lastReturn.result.tier # "mock"
             /\ lastReturn.started - lastReturn.result.fetchedAt <= cacheTimeout
    /\ \A s \in Symbols : priceCache[s] # NoEntry
          => priceCache[s].timestamp <= priceCache[s].data.fetchedAt

\* C4 (as claimed): every returned Quote has price > 0 and a valid assetType.
C4_PositivePriceValidType ==
    lastReturn # NoReturn
       => /\ IsNum(lastReturn.result.price)
          /\ lastReturn.result.price > 0
          /\ lastReturn.result.assetType \in AssetTypes

\* C26: the cache only ever holds quotes obtained from a provider: no mock
\* quote is stored in the cache or served as a cache hit
C26_CacheHoldsProviderQuotes ==
    /\ \A s \in Symbols :
          priceCache[s] # NoEntry => priceCache[s].data.tier # "mock"
    /\ (lastReturn # NoReturn /\ lastReturn.fromCache)
          => lastReturn.result.tier # "mock"

\* Alpha Vantage is asked for the call's symbol when Yahoo gave nothing
SecondaryApplies(c) == alphaVantageKey /\ c.assetType \in {"stock", "forex"}

\* C19: one getQuote call runs its tiers in the order cache, Yahoo, Alpha
\* Vantage, mock quote.  A call begins at the cache and, on a miss, with its
\* one Yahoo request; the Alpha Vantage request is made only by a call whose
\* Yahoo request came back without a quote; a provider's quote is returned
\* from the wait for that provider; the mock quote is returned only from the
\* wait for the last provider that applies; no call goes back to a provider.
C19_TierOrder ==
    [][(now' = now /\ (calls' # calls \/ lastReturn' # lastReturn)) =>
         \/ \E d \in BagToSet(calls') :
               /\ calls' = calls (+) SetToBag({d})
               /\ d.pc = "yahoo"
               /\ ~IsFresh(priceCache, d.symbol, now)
               /\ lastReturn' = lastReturn
         \/ /\ calls' = calls
            /\ lastReturn'.fromCache
            /\ IsFresh(priceCache, lastReturn'.symbol, now)
            /\ lastReturn'.result = priceCache[lastReturn'.symbol].data
         \/ \E c \in BagToSet(calls) :
               /\ c.pc = "yahoo"
               /\ SecondaryApplies(c)
               /\ calls' = (calls (-) SetToBag({c})) (+) SetToBag({[c EXCEPT !.pc = "alpha"]})
               /\ lastReturn' = lastReturn
         \/ \E c \in BagToSet(calls) :
               /\ calls' = calls (-) SetToBag({c})
               /\ lastReturn'.symbol = c.symbol
               /\ lastReturn'.started = c.started
               /\ ~lastReturn'.fromCache
               /\ \/ c.pc = "yahoo" /\ lastReturn'.result.tier = "yahoo"
                  \/ c.pc = "alpha" /\ lastReturn'.result.tier = "alphavantage"
                  \/ /\ lastReturn'.result.tier = "mock"
                     /\ c.pc = "alpha" \/ (c.pc = "yahoo" /\ ~SecondaryApplies(c))
       ]_vars

\* C19 witness: a call went through every tier down to the mock quote, and
\* another call for the symbol, its Yahoo request answered without a quote,
\* is waiting for Alpha Vantage
C19_Witness ==
    /\ lastReturn # NoReturn
    /\ ~lastReturn.fromCache
    /\ lastReturn.result.tier = "mock"
    /\ \E c \in BagToSet(calls) :
          c.pc = "alpha" /\ c.symbol = lastReturn.symbol /\ SecondaryApplies(c)

----------------------------------------------------------------------------
(* Sentiment Scorer: properties *)

\* C5: every analyzeSentiment call returns score in [0,10], confidence in
\* [0,1] and one of the three labels: without a key, when the completion
\* throws or is not usable JSON, and when its fields are missing or out of
\* range.
C5_SentimentInRange ==
    sentCall.pc = "done"
       => /\ sentCall.result.score \in 0..(10 * ScoreScale)
          /\ sentCall.result.confidence \in 0..ScoreScale
          /\ sentCall.result.sentiment \in SentimentLabels

\* C5 witness: the completion answered a label outside the three, a score
\* above 10 and a negative confidence, and the call returned.
C5_Witness ==
    /\ sentCall.pc = "done"
    /\ sentCall.reply.kind = "object"
    /\ sentCall.reply.sentiment = "bullish"
    /\ sentCall.reply.score > 10 * ScoreScale
    /\ sentCall.reply.confidence < 0

Clamp(x, lo, hi) == IF x < lo THEN lo ELSE IF x > hi THEN hi ELSE x

\* C22: when the completion is a JSON object, the returned score is its
\* numeric score clamped to [0,10], the returned confidence its numeric
\* confidence clamped to [0,1], and the label is its label if that is one of
\* the three and neutral otherwise
C22_ClampedLlmValues ==
    (sentCall.pc = "done" /\ sentCall.reply.kind = "object")
       => /\ IsNum(sentCall.reply.score)
                => sentCall.result.score = Clamp(sentCall.reply.score, 0, 10 * ScoreScale)
          /\ IsNum(sentCall.reply.confidence)
                => sentCall.result.confidence = Clamp(sentCall.reply.confidence, 0, ScoreScale)
          /\ sentCall.result.sentiment =
                IF sentCall.reply.sentiment \in SentimentLabels
                THEN sentCall.reply.sentiment ELSE "neutral"

\* the number of places of text where word stands
Occurrences(text, word) ==
    Cardinality({i \in 1..(Len(text) - Len(word) + 1) :
                    SubSeq(text, i, i + Len(word) - 1) = word})

RECURSIVE OccurrencesOfAll(_, _)
OccurrencesOfAll(text, words) ==
    IF words = {} THEN 0
    ELSE LET w == CHOOSE x \in words : TRUE
         IN Occurrences(text, w) + OccurrencesOfAll(text, words \ {w})

\* the keyword fallback answered: no key, or the completion was of no use
UsedKeywordFallback ==
    sentCall.pc = "done" /\ sentCall.reply.kind # "object"

\* C23: the keyword fallback counts the occurrences p of positive-list words
\* and n of negative-list words in the lower-cased text; p > n gives positive
\* with score 6 + min(p,4), n > p negative with 4 - min(n,4), p = n neutral
\* with 5
C23_KeywordCounts ==
    UsedKeywordFallback =>
       LET lowerText == ToLowerCase(sentCall.text)
           p == OccurrencesOfAll(lowerText, positiveWords)
           n == OccurrencesOfAll(lowerText, negativeWords)
       IN /\ p > n => /\ sentCall.result.sentiment = "positive"
                      /\ sentCall.result.score = (6 + Min(p, 4)) * ScoreScale
          /\ n > p => /\ sentCall.result.sentiment = "negative"
                      /\ sentCall.result.score = (4 - Min(n, 4)) * ScoreScale
          /\ p = n => /\ sentCall.result.sentiment = "neutral"
                      /\ sentCall.result.score = 5 * ScoreScale

----------------------------------------------------------------------------
(* Alpha Scorer: properties *)

MetricFields ==
    {"sentimentScore", "volatilityScore", "momentumScore", "alphaScore", "signal"}

\* the signatures the service handed out: what the call returned and every
\* stored row
Signatures ==
    {alphaSignatures[i] : i \in DOMAIN alphaSignatures}
       \cup (IF alphaCall.pc = "done" THEN {alphaCall.result} ELSE {})

\* alphaScore is 0.4 s + 0.3 v + 0.3 m rounded to one decimal: a multiple
\* of 0.1 at most 0.05 away from the weighted sum, the half rounded up
IsWeightedRound(m) ==
    IF NaN \in {m.sentimentScore, m.volatilityScore, m.momentumScore}
    THEN m.alphaScore = NaN
    ELSE /\ m.alphaScore # NaN
         /\ m.alphaScore % (ScoreScale \div 10) = 0
         /\ LET d == 100 * m.alphaScore
                       - (40 * m.sentimentScore + 30 * m.volatilityScore
                          + 30 * m.momentumScore)
            IN d > 0 - 5 * ScoreScale /\ d <= 5 * ScoreScale

\* C6: calculateAlphaSignature never throws; when an awaited storage step
\* fails the call returns the neutral signature (5, 5, 5, 5, hold) and has
\* appended no signature row.
C6_FailureGivesNeutral ==
    alphaCall.pc = "done"
       => /\ DOMAIN alphaCall.result = MetricFields
          /\ alphaCall.error # "none"
                => /\ alphaCall.result = neutralMetrics
                   /\ Len(alphaSignatures) = alphaCall.rowsBefore

\* C6 witness: the signature was computed, was not the neutral one, and the
\* insert of its row failed.
C6_Witness ==
    /\ alphaCall.pc = "done"
    /\ alphaCall.error = "store"
    /\ alphaCall.metrics # NoMetrics
    /\ alphaCall.metrics # neutralMetrics

\* C7: every signature returned or stored, the neutral one included, has
\* alphaScore = round1(0.4 sentiment + 0.3 volatility + 0.3 momentum), so
\* that the stored sub-scores reproduce the stored alphaScore (a NaN
\* sub-score with a NaN alphaScore counts as reproduced).
C7_AlphaIsWeightedRound ==
    \A m \in Signatures : IsWeightedRound(m)

\* C8: sentimentScore, volatilityScore, momentumScore and alphaScore of
\* every signature returned or stored lie in [0, 10], whatever the price
\* history (a price of 0, equal consecutive prices).
C8_ScoresInRange ==
    \A m \in Signatures :
       /\ m.sentimentScore \in 0..(10 * ScoreScale)
       /\ m.volatilityScore \in 0..(10 * ScoreScale)
       /\ m.momentumScore \in 0..(10 * ScoreScale)
       /\ m.alphaScore \in 0..(10 * ScoreScale)

\* C10: a history of fewer than 5 points gives volatilityScore exactly 5 and
\* a history of fewer than 10 points gives momentumScore exactly 5.
C10_ShortHistoryDefaults ==
    alphaCall.metrics # NoMetrics
       => /\ Len(alphaCall.priceHistory) < 5
                => alphaCall.metrics.volatilityScore = 5 * ScoreScale
          /\ Len(alphaCall.priceHistory) < 10
                => alphaCall.metrics.momentumScore = 5 * ScoreScale

\* C10 witness: the scores of a history of four points whose prices differ.
C10_Witness ==
    /\ alphaCall.metrics # NoMetrics
    /\ Len(alphaCall.priceHistory) = 4
    /\ alphaCall.priceHistory[1] # alphaCall.priceHistory[2]
    /\ alphaCall.metrics.volatilityScore = 5 * ScoreScale
    /\ alphaCall.metrics.momentumScore = 5 * ScoreScale

----------------------------------------------------------------------------
(* Signal banding: properties *)

\* C9 as written: strong_buy from 8.5, buy on [7, 8.5), hold on [4, 6], and
\* a score strictly between 6 and 7 (6.2) falls through to strong_sell.
C9_GapIsStrongSell ==
    (scoreOut # NoScore /\ scoreOut.alphaScore # NaN)
       => /\ scoreOut.alphaScore * 10 >= 85 * ScoreScale => scoreOut.signal = "strong_buy"
          /\ (scoreOut.alphaScore >= 7 * ScoreScale /\ scoreOut.alphaScore * 10 < 85 * ScoreScale)
                => scoreOut.signal = "buy"
          /\ (scoreOut.alphaScore >= 4 * ScoreScale /\ scoreOut.alphaScore <= 6 * ScoreScale)
                => scoreOut.signal = "hold"
          /\ (scoreOut.alphaScore > 6 * ScoreScale /\ scoreOut.alphaScore < 7 * ScoreScale)
                => scoreOut.signal = "strong_sell"

\* C9 amended: strong_buy from 8.5, buy on [7, 8.5), hold on [4, 6], and a
\* score strictly between 6 and 7 (6.2) is neither buy nor hold and gets
\* sell, as the scores on [2.5, 4) do.
C9_GapIsSell ==
    (scoreOut # NoScore /\ scoreOut.alphaScore # NaN)
       => /\ scoreOut.alphaScore * 10 >= 85 * ScoreScale => scoreOut.signal = "strong_buy"
          /\ (scoreOut.alphaScore >= 7 * ScoreScale /\ scoreOut.alphaScore * 10 < 85 * ScoreScale)
                => scoreOut.signal = "buy"
          /\ (scoreOut.alphaScore >= 4 * ScoreScale /\ scoreOut.alphaScore <= 6 * ScoreScale)
                => scoreOut.signal = "hold"
          /\ (scoreOut.alphaScore > 6 * ScoreScale /\ scoreOut.alphaScore < 7 * ScoreScale)
                => scoreOut.signal = "sell"

\* C9 witness: sentiment 8, volatility 6 and momentum 4 give 6.2, and 6.2
\* gets sell.
C9_Witness ==
    /\ scoreIn = [sentiment |-> 8 * ScoreScale, volatility |-> 6 * ScoreScale,
                  momentum |-> 4 * ScoreScale]
    /\ scoreOut # NoScore
    /\ scoreOut.alphaScore * 10 = 62 * ScoreScale
    /\ scoreOut.signal = "sell"

----------------------------------------------------------------------------
(* Latest-row queries: properties *)

\* the row inserted last among those of the greatest timestamp
LastInsertedLatest(rows) ==
    IF rows = <<>> THEN NoRow
    ELSE LET top == {j \in DOMAIN rows :
                        \A k \in DOMAIN rows : rows[k].timestamp <= rows[j].timestamp}
         IN rows[CHOOSE j \in top : \A k \in top : k <= j]

\* C11: the latest-sentiment and latest-alpha-signature queries answer with
\* the row inserted last among the rows of the greatest timestamp, so that
\* the store's contents determine the answer.
C11_LatestIsLastInserted ==
    [][(lastQuery' # lastQuery /\ lastQuery' # NoQuery)
          => lastQuery'.result =
                LastInsertedLatest(IF lastQuery'.kind = "sentiment"
                                   THEN sentimentData ELSE alphaSignatures)]_vars

----------------------------------------------------------------------------
(* Behavioral bias reports *)

BiasDone == biasCall.pc = "done"
BiasReported == BiasDone /\ biasCall.result # Thrown
MainPath == BiasDone /\ biasCall.reply # NoReply

\* C12: analyzeBehavioralBiases always completes with a report and never
\* throws; when the completion fails the rule-based findings are returned
\* unchanged with the substituted narrative
C12_NeverThrows ==
    BiasDone =>
       /\ biasCall.result # Thrown
       /\ (MainPath /\ biasCall.reply.kind # "object") =>
             /\ biasCall.result.detectedBiases =
                   detectBiases(biasCall.portfolio, biasCall.transactions,
                                getUserSentimentHistory,
                                calculateBehavioralProfile(biasCall.portfolio,
                                                           biasCall.transactions))
             /\ biasCall.result.narrative.recommendations = "substitute"

\* C13: the diversification score of the profile that enters the
\* overconfidence detector is exactly min(10, sectors * 2 + asset types * 1.5),
\* so the reported findings are those made with the exact value
C13_ExactDiversification ==
    MainPath =>
       /\ biasCall.result.behavioralProfile.diversificationScore =
             diversificationOf(biasCall.portfolio)
       /\ biasCall.result.detectedBiases =
             detectBiases(biasCall.portfolio, biasCall.transactions,
                          getUserSentimentHistory,
                          [calculateBehavioralProfile(biasCall.portfolio,
                                                      biasCall.transactions)
                             EXCEPT !.diversificationScore =
                                       diversificationOf(biasCall.portfolio)])

\* C14: no returned report, on any path, has a finding of type
\* confirmation_bias
C14_NoConfirmationBias ==
    BiasReported =>
       \A i \in DOMAIN biasCall.result.detectedBiases :
          biasCall.result.detectedBiases[i].biasType # "confirmation_bias"

\* the mean over the findings of severity weight times confidence, 2 when
\* there is none
MeanWeightedConfidence(biases) ==
    IF biases = <<>> THEN 2 * ScoreScale
    ELSE Quot(SumSeq([i \in DOMAIN biases |->
                         (CASE biases[i].severity = "high" -> 8
                            [] biases[i].severity = "medium" -> 5
                            [] OTHER -> 2) * biases[i].confidence]),
              Len(biases))

\* C15: in every returned report, fallback reports included, the overall
\* score is the mean of severity weight times confidence over its findings,
\* and 2 when it has no finding
C15_OverallIsMean ==
    BiasReported =>
       biasCall.result.overallBiasScore =
          MeanWeightedConfidence(biasCall.result.detectedBiases)

\* C16: the diversification score of every returned report, fallback
\* reports included, is between 0 and 10
C16_DiversificationInRange ==
    BiasReported =>
       /\ biasCall.result.behavioralProfile.diversificationScore >= 0
       /\ biasCall.result.behavioralProfile.diversificationScore <= 10 * ScoreScale

\* C27: a user with no holdings gets a report with no finding
C27_NoHoldingsNoFindings ==
    (BiasReported /\ holdings = <<>>) => biasCall.result.detectedBiases = <<>>

\* C29: a report with at least one finding has an overall score of 2, the
\* score of a report without findings, or more
C29_FindingNeverLowersScore ==
    (BiasReported /\ biasCall.result.detectedBiases # <<>>)
       => biasCall.result.overallBiasScore >= 2 * ScoreScale

----------------------------------------------------------------------------
(* Herding *)

----------------------------------------------------------------------------
(* Loss aversion *)

\* the sells that have a buy of the same symbol before them
MatchedSells(transactions) ==
    {i \in DOMAIN transactions :
        /\ transactions[i].type = "sell"
        /\ \E j \in DOMAIN transactions :
              /\ transactions[j].type = "buy"
              /\ transactions[j].symbol = transactions[i].symbol
              /\ transactions[j].timestamp < transactions[i].timestamp}

\* C17: with fewer than three sells matched to a prior buy of the same
\* symbol, detectLossAversion returns no finding, whatever the gains, losses
\* and holding periods of the matched sells
C17_FewRoundTripsNoFinding ==
    (lossOut # NoLoss /\ Cardinality(MatchedSells(lossIn)) < 3)
       => lossOut.finding = NoFinding

\* two winners sold quickly, each matched to a buy, and no finding
C17_Witness ==
    /\ lossOut # NoLoss
    /\ Cardinality(MatchedSells(lossIn)) = 2
    /\ \A i \in MatchedSells(lossIn) : lossIn[i].price > 10000
    /\ lossOut.finding = NoFinding

----------------------------------------------------------------------------
(* Market trends: provider fallback *)

\* C18: when the Alpha Vantage request for a symbol fails in any way and a
\* Finnhub key is configured, Finnhub is queried for that symbol before the
\* loop leaves it
C18_FinnhubAfterAlphaFailure ==
    [][(trendsCall.pc = "alpha" /\ FINNHUB_KEY
          /\ Len(trendsCall'.data) = Len(trendsCall.data))
          => (trendsCall'.pc = "finnhub" /\ trendsCall'.i = trendsCall.i)]_vars

----------------------------------------------------------------------------
(* Asset classification *)

EndsWith(s, suffix) ==
    Len(s) >= Len(suffix) /\ SubSeq(s, Len(s) - Len(suffix) + 1, Len(s)) = suffix

\* a 6-letter code containing USD, EUR, GBP or JPY, or a symbol ending in =X
IsForexCode(upper) ==
    \/ /\ Len(upper) = 6
       /\ \E code \in {<<"U","S","D">>, <<"E","U","R">>, <<"G","B","P">>, <<"J","P","Y">>} :
             Includes(upper, code)
    \/ EndsWith(upper, <<"=","X">>)

\* C20: a symbol that is not crypto is forex exactly when its upper-cased form
\* is a 6-letter code containing USD, EUR, GBP or JPY, or ends in =X
C20_ForexExactly ==
    (typeOut # NoType /\ typeOut # "crypto")
       => (typeOut = "forex" <=> IsForexCode(ToUpperCase(typeIn)))

----------------------------------------------------------------------------
(* Alpha signature: the sentiment score it takes, the order of the signals *)

\* C24: the sentimentScore of a computed signature is the score of the most
\* recent sentiment row of the symbol when there is one, whatever that score
\* in [0,10], and 5 when there is none
C24_SentimentScoreIsLatest ==
    (alphaCall.pc \in {"history", "store", "done"} /\ alphaCall.sentimentScore # Undef)
       => IF sentimentData = <<>>
          THEN alphaCall.sentimentScore = 5 * ScoreScale
          ELSE alphaCall.sentimentScore \in
                  {row.score : row \in getLatestSentiment(sentimentData)}

SignalRank(signal) ==
    CASE signal = "strong_sell" -> 0 [] signal = "sell" -> 1 [] signal = "hold" -> 2
      [] signal = "buy" -> 3 [] signal = "strong_buy" -> 4

\* C28: the signal is monotone in the alpha score: no score below the one
\* computed gets a signal above its signal
C28_SignalMonotone ==
    (scoreOut # NoScore /\ scoreOut.alphaScore # NaN)
       => \A k \in 0..100 :
             k * (ScoreScale \div 10) <= scoreOut.alphaScore
                => SignalRank(generateSignal(k * (ScoreScale \div 10)))
                      <= SignalRank(scoreOut.signal)

----------------------------------------------------------------------------
(* getMultipleQuotes: groups *)

GroupOf(j) == (j - 1) \div 5

RECURSIVE QuotesUpTo(_, _)
QuotesUpTo(c, n) ==
    IF n = 0 THEN <<>>
    ELSE QuotesUpTo(c, n - 1)
            \o (IF c.quotes[n] = "null" THEN <<>>
                ELSE <<[symbol |-> c.symbols[n], tier |-> c.quotes[n]]>>)

\* C21: the symbols are resolved in consecutive groups of at most 5: at most
\* 5 getQuote calls are in flight, no call of a group has started while a
\* call of an earlier group has not completed, and the result lists the
\* quotes in input order
C21_GroupsOfFive ==
    LET c == manyCall
        started == {j \in DOMAIN c.quotes : c.quotes[j] # "unstarted"}
        inFlight == {j \in DOMAIN c.quotes : c.quotes[j] = "pending"}
    IN /\ Cardinality(inFlight) <= 5
       /\ \A j \in started, k \in DOMAIN c.quotes :
             GroupOf(k) < GroupOf(j) => c.quotes[k] \notin {"unstarted", "pending"}
       /\ \A j, k \in inFlight : GroupOf(j) = GroupOf(k)
       /\ c.pc = "done" => c.results = QuotesUpTo(c, Len(c.symbols))

\* C21 witness: the second group is in flight after the five calls of the
\* first have completed
C21_Witness ==
    /\ manyCall.pc = "batch"
    /\ Len(manyCall.symbols) = 7
    /\ manyCall.quotes[6] = "pending"
    /\ manyCall.quotes[7] # "pending"
    /\ Len(manyCall.results) = 5

----------------------------------------------------------------------------
(* Market trend analysis cache *)

\* C30: once a refresh has returned analysis A, the cache holds A or an
\* analysis whose generation started later, and every getCached call made
\* after that return gives A or such an analysis: no analysis whose
\* generation started before the refresh re-enters the cache
C30_NoOlderAnalysisAfterRefresh ==
    /\ (lastRefresh # 0 /\ analysisCache # NoAnalysis)
          => analysisCache.data >= lastRefresh
    /\ (trendReturn # NoTrendReturn /\ trendReturn.seen # 0)
          => trendReturn.data >= trendReturn.seen

====
